---------------------------- MODULE Spec2Model ----------------------------
(***************************************************************************)
(* Model of the money-muling detection engine (backend/app/engine):        *)
(* parser.py, graph.py, detectors/cycles.py, detectors/shells.py,          *)
(* detectors/smurfing.py, scorer.py and analyzer.py.                       *)
(*                                                                         *)
(* Each component is modelled from its source.  The module holds several   *)
(* specifications over one set of variables; a specification drives one    *)
(* component and leaves the variables of the others idle.                  *)
(***************************************************************************)
EXTENDS Integers, Sequences, FiniteSets, TLC

VARIABLES
    graph,        \* graph.py: the TransactionGraph under construction
    added,        \* the transactions handed to add_transaction so far, in call order
    content,      \* parser.py: the input buffer (decodable or not, its header row)
    rows,         \* the data rows of the buffer read so far
    ppc,          \* where parse_csv / analyze stands
    transactions, \* parse_csv: the accepted transactions
    seen_ids,     \* parse_csv: the transaction ids recorded as seen
    accepted_at,  \* for each row read, whether parse_csv appended a transaction
    outcome,      \* how the call ended: the exception raised, or "report"
    cyc,          \* cycles.py: the state of detect_cycles (stack, found_cycles, ...)
    cycle_rings,  \* cycles.py: the list detect_cycles returned
    caps,         \* cycles.py: the values of MAX_ITERATIONS and MAX_CYCLES
    csv_content,  \* analyzer.py: the transactions the input buffer of analyze holds
    hash_seed,    \* the string-hash seed of the process executing analyze
    apc,          \* where the executing call of analyze stands
    an_graph,     \* analyze: the graph built in step 2
    detected,     \* analyze: cycle_rings, smurfing_rings, shell_chains of step 3
    timed_out,    \* analyze: whether future.result raised TimeoutError
    reports,      \* the reports returned by the executions of analyze so far
    main,         \* analyzer.py step 3: where the thread calling analyze stands
    worker,       \* the pool thread running run_detectors: where it stands, its outputs
    clock,        \* seconds elapsed since executor.submit
    future,       \* the future of run_detectors: whether done, and its result
    dpc,          \* smurfing.py, shells.py: where the call of the detector stands
    smurfing_rings, \* smurfing.py: the list detect_smurfing returned
    shell_chains, \* shells.py: the list detect_shell_networks returned
    csv_pair,     \* an input and the same input with a copy of an accepted row
    pair_runs,    \* what analyze returned or raised on each input of the pair
    norm_path,    \* cycles.py: a path handed to _normalize_cycle
    norm_calls,   \* the calls of _normalize_cycle so far: argument and result
    norm_rings,   \* the CycleRing objects built from the results
    run_graph,    \* the graph handed to the detectors
    run_seed,     \* the string-hash seed of the process calling the detectors
    ran,          \* the detectors called so far, in call order
    run_outputs   \* what the detectors called so far returned

graphVars == <<graph, added>>
parseVars == <<content, rows, ppc, transactions, seen_ids, accepted_at, outcome>>
cycleVars == <<cyc, cycle_rings, caps>>
analyzeVars == <<csv_content, hash_seed, apc, an_graph, detected, timed_out, reports>>
timeoutVars == <<main, worker, clock, future>>
detectorVars == <<dpc, smurfing_rings, shell_chains>>
pairVars == <<csv_pair, pair_runs>>
normVars == <<norm_path, norm_calls, norm_rings>>
runVars == <<run_graph, run_seed, ran, run_outputs>>
vars == <<graphVars, parseVars, cycleVars, analyzeVars, timeoutVars, detectorVars,
          pairVars, normVars, runVars>>

\* what the actions of one component leave unchanged in the others
otherThanGraph == <<parseVars, cycleVars, analyzeVars, timeoutVars,
                    detectorVars, pairVars, normVars, runVars>>
otherThanParse == <<cycleVars, analyzeVars, timeoutVars, detectorVars,
                    pairVars, normVars, runVars>>
otherThanCycles == <<graphVars, parseVars, analyzeVars, timeoutVars,
                     detectorVars, pairVars, normVars, runVars>>
otherThanAnalyze == <<graphVars, parseVars, cycleVars, timeoutVars,
                      detectorVars, pairVars, normVars, runVars>>
otherThanTimeout == <<graphVars, parseVars, cycleVars, detectorVars,
                      pairVars, normVars, runVars>>
otherThanDetector == <<parseVars, cycleVars, analyzeVars, timeoutVars,
                       pairVars, normVars, runVars>>
otherThanPair == <<graphVars, parseVars, cycleVars, analyzeVars,
                   timeoutVars, detectorVars, normVars, runVars>>
otherThanNorm == <<graphVars, parseVars, cycleVars, analyzeVars, timeoutVars,
                   detectorVars, pairVars, runVars>>
otherThanRun == <<graphVars, parseVars, cycleVars, analyzeVars, timeoutVars,
                  detectorVars, pairVars, normVars>>

(***************************************************************************)
(* Generic helpers                                                         *)
(***************************************************************************)
Range(s) == {s[i] : i \in 1..Len(s)}

\* Python's None where a str is expected: the value csv.DictReader gives a
\* column the row has no cell for (restval), a node's absent ringId
None == "<None>"

\* dict.get(key, default)
Get(d, k, default) == IF k \in DOMAIN d THEN d[k] ELSE default

\* w, once v has been evaluated: a loop written as a recursion hands its
\* state on evaluated, as the loop of the source does, and not as a
\* computation still to be carried out
Strict(v, w) == IF v = v THEN w ELSE w

\* "for i in range(lo, hi + 1): acc = Body(acc, i)": the range is walked in
\* two halves, first to last, the state left by the first half being
\* evaluated before the second starts, so that a long loop is not a deep
\* recursion
RECURSIVE ForRange(_, _, _, _)
ForRange(Body(_, _), acc, lo, hi) ==
    IF lo > hi THEN acc
    ELSE IF lo = hi THEN Body(acc, lo)
    ELSE LET mid == (lo + hi) \div 2
             half == ForRange(Body, acc, lo, mid)
         IN  Strict(half, ForRange(Body, half, mid + 1, hi))

\* d[k] = v on a dict modelled as a function
Put(d, k, v) == (k :> v) @@ d

\* Account ids in ascending lexicographic (str) order; Rank gives the position
AccountIds ==
    <<"A", "B", "C", "D", "E", "F", "G", "H",
      "L1", "L2", "L3", "L4", "L5", "L6", "L7", "L8",
      "S1", "S2", "S3">>

Rank(a) == CHOOSE i \in 1..Len(AccountIds) : AccountIds[i] = a

\* a < b on str
StrLess(a, b) == Rank(a) < Rank(b)

\* sorted(S) for a set of account ids
SortAccounts(S) == SelectSeq(AccountIds, LAMBDA a : a \in S)

\* The labels the aggregator puts into sets
Labels ==
    <<"cycle", "smurfing", "layered_shell", "shell_intermediary",
      "cycle_length_3", "cycle_length_4", "cycle_length_5", "fan_in", "fan_out">>

\* Iteration order of a set (graph.nodes, a partner set, a label set): CPython
\* iterates a set of str in the order of the hashes, which a per-process seed
\* (PYTHONHASHSEED) randomizes.  HashKey is the hash of a str under a seed;
\* a set is iterated by ascending hash.  Seed 1 gives ascending str order.
HashUniverse == AccountIds \o Labels

\* the string-hash seeds a process may run under
MaxHashSeed == 3

HashSeeds == 1..MaxHashSeed

HashIndex(x) == CHOOSE i \in 1..Len(HashUniverse) : HashUniverse[i] = x

HashKey(x, seed) ==
    LET i == HashIndex(x)
    IN  <<(i * i * (seed - 1) + i) % (Len(HashUniverse) + 1), i>>

KeyLess(k1, k2) == k1[1] < k2[1] \/ (k1[1] = k2[1] /\ k1[2] < k2[2])

\* list(S) / "for x in S" for a set S of str under a seed
IterSet(S, seed) ==
    SortSeq(SelectSeq(HashUniverse, LAMBDA x : x \in S),
            LAMBDA x, y : KeyLess(HashKey(x, seed), HashKey(y, seed)))

\* every order in which the elements of a set may be iterated
Orders(S) ==
    {q \in [1..Cardinality(S) -> S] : \A x \in S : \E i \in DOMAIN q : q[i] = x}

(***************************************************************************)
(* graph.py                                                                *)
(***************************************************************************)
\* float amounts: a finite number (val), or the non-finite floats nan / inf
Num(v) == [kind |-> "num", val |-> v]
NaN == [kind |-> "nan", val |-> 0]
Inf == [kind |-> "inf", val |-> 0]

\* float addition on the amounts above
AddAmount(a, b) ==
    IF a.kind = "nan" \/ b.kind = "nan" THEN NaN
    ELSE IF a.kind = "inf" \/ b.kind = "inf" THEN Inf
    ELSE Num(a.val + b.val)

Transaction(id, s, r, amt, ts) ==
    [transaction_id |-> id, sender_id |-> s, receiver_id |-> r,
     amount |-> amt, timestamp |-> ts]

Edge(target, amt, ts, id) ==
    [target |-> target, amount |-> amt, timestamp |-> ts, transaction_id |-> id]

NodeStats ==
    [in_degree |-> 0, out_degree |-> 0,
     total_in_amount |-> Num(0), total_out_amount |-> Num(0)]

total_degree(st) == st.in_degree + st.out_degree

total_txn_count(st) == st.in_degree + st.out_degree

\* TransactionGraph.__init__
TransactionGraph ==
    [adj |-> <<>>, reverse_adj |-> <<>>, nodes |-> {}, stats |-> <<>>,
     incoming |-> <<>>]

\* mutant: the reverse edge keeps the receiver as its target
ReverseEdgeWrongTarget(txn) ==
    Edge(txn.receiver_id, txn.amount, txn.timestamp, txn.transaction_id)

\* the reverse edge appended under the receiver
ReverseEdge(txn) ==
    Edge(txn.sender_id, txn.amount, txn.timestamp, txn.transaction_id)

\* the stats entry of the sender after the call
SenderStats(st, txn) ==
    [st EXCEPT !.out_degree = @ + 1,
               !.total_out_amount = AddAmount(@, txn.amount)]

\* mutant: the receiver's in_degree is not counted
ReceiverStatsNoCount(st, txn) ==
    [st EXCEPT !.total_in_amount = AddAmount(@, txn.amount)]

\* the stats entry of the receiver after the call
ReceiverStats(st, txn) ==
    [st EXCEPT !.in_degree = @ + 1,
               !.total_in_amount = AddAmount(@, txn.amount)]

\* TransactionGraph.add_transaction
add_transaction(g, txn) ==
    LET sender == txn.sender_id
        receiver == txn.receiver_id
        nodes1 == g.nodes \cup {sender, receiver}
        adj1 == Put(g.adj, sender,
                    Append(Get(g.adj, sender, <<>>),
                           Edge(receiver, txn.amount, txn.timestamp,
                                txn.transaction_id)))
        rev1 == Put(g.reverse_adj, receiver,
                    Append(Get(g.reverse_adj, receiver, <<>>), ReverseEdge(txn)))
        inc1 == Put(g.incoming, receiver,
                    Append(Get(g.incoming, receiver, <<>>),
                           <<sender, txn.amount, txn.timestamp,
                             txn.transaction_id>>))
        st0 == Put(g.stats, sender, Get(g.stats, sender, NodeStats))
        st1 == Put(st0, receiver, Get(st0, receiver, NodeStats))
        st2 == [st1 EXCEPT ![sender] = SenderStats(@, txn)]
        st3 == [st2 EXCEPT ![receiver] = ReceiverStats(@, txn)]
    IN  [adj |-> adj1, reverse_adj |-> rev1, nodes |-> nodes1, stats |-> st3,
         incoming |-> inc1]

\* TransactionGraph.get_neighbors
get_neighbors(g, node) ==
    LET es == Get(g.adj, node, <<>>) IN [i \in 1..Len(es) |-> es[i].target]

\* TransactionGraph.get_outgoing_edges
get_outgoing_edges(g, node) == Get(g.adj, node, <<>>)

\* TransactionGraph.get_incoming_edges
get_incoming_edges(g, node) == Get(g.reverse_adj, node, <<>>)

\* TransactionGraph.node_count
node_count(g) == Cardinality(g.nodes)

RECURSIVE SumLen(_, _)
SumLen(d, keys) ==
    IF keys = {} THEN 0
    ELSE LET k == CHOOSE x \in keys : TRUE
         IN  Len(d[k]) + SumLen(d, keys \ {k})

\* TransactionGraph.edge_count
edge_count(g) == SumLen(g.adj, DOMAIN g.adj)

\* "for txn in transactions: graph.add_transaction(txn)" from txns[i] on
build_graph_from(g, txns, i) ==
    ForRange(LAMBDA g1, k : add_transaction(g1, txns[k]), g, i, Len(txns))

\* build_graph
build_graph(txns) == build_graph_from(TransactionGraph, txns, 1)

(***************************************************************************)
(* detectors/cycles.py                                                     *)
(***************************************************************************)
MAX_ITERATIONS == 100000
MAX_CYCLES == 50

\* the default arguments of detect_cycles
min_length == 3
max_length == 5

\* the caps a search runs under
Limits == [max_iterations |-> MAX_ITERATIONS, max_cycles |-> MAX_CYCLES]

CycleRing(members) == [members |-> members, length |-> Len(members)]

\* list.index(min(cycle))
MinIndex(cycle) ==
    CHOOSE i \in 1..Len(cycle) :
        /\ \A j \in 1..Len(cycle) : cycle[i] = cycle[j] \/ StrLess(cycle[i], cycle[j])
        /\ \A j \in 1..(i - 1) : cycle[j] # cycle[i]

\* mutant: the path is kept in the rotation it was found in
KeepRotation(cycle) == cycle

\* the ids in ascending order instead of a rotation
NormalizeBySorting(cycle) == SortAccounts(Range(cycle))

\* _normalize_cycle
_normalize_cycle(cycle) ==
    IF cycle = <<>> THEN <<>>
    ELSE LET min_idx == MinIndex(cycle)
         IN  SubSeq(cycle, min_idx, Len(cycle)) \o SubSeq(cycle, 1, min_idx - 1)

\* candidates: the nodes with incoming and outgoing edges, sorted
Candidates(g) ==
    SortAccounts({n \in g.nodes :
                    /\ n \in DOMAIN g.stats
                    /\ g.stats[n].in_degree > 0
                    /\ g.stats[n].out_degree > 0})

Frame(current, path, visited, neighbor_idx) ==
    [current |-> current, path |-> path, visited |-> visited,
     neighbor_idx |-> neighbor_idx]

\* mutant: the cap on the cycles found is not tested
CapReachedIterationsOnly(lim, found_cycles, iteration_count) ==
    iteration_count >= lim.max_iterations

\* the cap test "iteration_count >= MAX_ITERATIONS or len(found_cycles) >= MAX_CYCLES"
CapReached(lim, found_cycles, iteration_count) ==
    \/ iteration_count >= lim.max_iterations
    \/ Cardinality(found_cycles) >= lim.max_cycles

\* mutant: a path of max_length nodes is still extended
CanExtendOneTooFar(path, visited, neighbor) ==
    neighbor \notin visited /\ Len(path) <= max_length

\* "neighbor not in visited and len(path) < max_length"
CanExtend(path, visited, neighbor) ==
    neighbor \notin visited /\ Len(path) < max_length

\* "neighbor == start_node and len(path) >= min_length"
ClosesCycle(path, start_node, neighbor) ==
    neighbor = start_node /\ Len(path) >= min_length

\* the state of detect_cycles before the first candidate
CycleSearchInit(g) ==
    [pc |-> "for", start_idx |-> 1, stack |-> <<>>, found_cycles |-> {},
     iteration_count |-> 0]

\* "for i in range(neighbor_idx, len(neighbors))" from index i on (0-based),
\* with the popped frame f and the rest of the stack
RECURSIVE ScanNeighbors(_, _, _, _, _, _, _, _)
ScanNeighbors(g, lim, start_node, f, i, rest, found_cycles, iteration_count) ==
    LET neighbors == get_neighbors(g, f.current)
        here == [stack |-> rest, found_cycles |-> found_cycles,
                 iteration_count |-> iteration_count]
    IN  IF i >= Len(neighbors) THEN here
        ELSE
        LET neighbor == neighbors[i + 1]
            count1 == iteration_count + 1
        IN  IF CapReached(lim, found_cycles, count1)
            THEN [here EXCEPT !.iteration_count = count1]
            ELSE IF ClosesCycle(f.path, start_node, neighbor)
            THEN ScanNeighbors(g, lim, start_node, f, i + 1, rest,
                               found_cycles \cup {_normalize_cycle(f.path)}, count1)
            ELSE IF CanExtend(f.path, f.visited, neighbor)
            THEN [stack |-> rest
                        \o <<Frame(f.current, f.path, f.visited, i + 1),
                             Frame(neighbor, Append(f.path, neighbor),
                                   f.visited \cup {neighbor}, 0)>>,
                  found_cycles |-> found_cycles,
                  iteration_count |-> count1]
            ELSE ScanNeighbors(g, lim, start_node, f, i + 1, rest, found_cycles, count1)

\* one step of detect_cycles: the head of "for start_node in candidates", or
\* one iteration of "while stack"
CycleSearchStep(g, lim, st) ==
    LET candidates == Candidates(g)
    IN  IF st.pc = "for"
        THEN IF st.start_idx > Len(candidates)
                  \/ CapReached(lim, st.found_cycles, st.iteration_count)
             THEN [st EXCEPT !.pc = "convert", !.stack = <<>>]
             ELSE [st EXCEPT !.pc = "while",
                             !.stack = <<Frame(candidates[st.start_idx],
                                               <<candidates[st.start_idx]>>,
                                               {candidates[st.start_idx]}, 0)>>]
        ELSE IF st.stack = <<>>
        THEN [st EXCEPT !.pc = "for", !.start_idx = @ + 1]
        ELSE
        LET count1 == st.iteration_count + 1
        IN  IF CapReached(lim, st.found_cycles, count1)
            THEN [st EXCEPT !.pc = "for", !.start_idx = @ + 1,
                            !.iteration_count = count1]
            ELSE
            LET f == st.stack[Len(st.stack)]
                rest == SubSeq(st.stack, 1, Len(st.stack) - 1)
                r == ScanNeighbors(g, lim, candidates[st.start_idx], f,
                                   f.neighbor_idx, rest, st.found_cycles, count1)
            IN  [st EXCEPT !.stack = r.stack, !.found_cycles = r.found_cycles,
                           !.iteration_count = r.iteration_count]

\* up to 2^k steps of the search, stopping at "convert": the steps are taken
\* in two halves, so that a long search is not a deep recursion
RECURSIVE CycleSearchSteps(_, _, _, _)
CycleSearchSteps(g, lim, st, k) ==
    IF st.pc = "convert" THEN st
    ELSE IF k = 0 THEN CycleSearchStep(g, lim, st)
    ELSE LET half == CycleSearchSteps(g, lim, st, k - 1)
         IN  Strict(half, CycleSearchSteps(g, lim, half, k - 1))

\* the search run to its end
RECURSIVE CycleSearchRun(_, _, _)
CycleSearchRun(g, lim, st) ==
    IF st.pc = "convert" THEN st
    ELSE LET st1 == CycleSearchSteps(g, lim, st, 5)
         IN  Strict(st1, CycleSearchRun(g, lim, st1))

\* "results = [CycleRing(...) for cycle_key in found_cycles]", the set being
\* iterated in the order given
CycleResults(order) == [i \in DOMAIN order |-> CycleRing(order[i])]

\* detect_cycles(graph): the unique cycles found
FoundCycles(g) == CycleSearchRun(g, Limits, CycleSearchInit(g)).found_cycles

(***************************************************************************)
(* detectors/shells.py                                                     *)
(***************************************************************************)
MIN_SHELL_DEGREE == 2
MAX_SHELL_DEGREE == 3
MIN_CHAIN_HOPS == 3
MAX_CHAIN_HOPS == 8

\* chain_length counting the accounts instead of the hops
ShellChainOfAccounts(members, shell_accounts, chain_length) ==
    [members |-> members, shell_accounts |-> shell_accounts,
     chain_length |-> Len(members)]

ShellChain(members, shell_accounts, chain_length) ==
    [members |-> members, shell_accounts |-> shell_accounts,
     chain_length |-> chain_length]

\* the shell band one degree wider
IsShellAccountWide(degree) ==
    MIN_SHELL_DEGREE <= degree /\ degree <= MAX_SHELL_DEGREE + 1

\* _is_shell_account
_is_shell_account(degree) ==
    MIN_SHELL_DEGREE <= degree /\ degree <= MAX_SHELL_DEGREE

\* a chain is appended whether or not its path has been seen
RecordChainAgain(acc, path, shells_in_path, hops) ==
    [results |-> Append(acc.results, ShellChain(path, shells_in_path, hops)),
     seen |-> acc.seen \cup {path}]

\* "if chain_key not in seen: seen.add(chain_key); results.append(...)"
RecordChain(acc, path, shells_in_path, hops) ==
    IF path \in acc.seen THEN acc
    ELSE [results |-> Append(acc.results, ShellChain(path, shells_in_path, hops)),
          seen |-> acc.seen \cup {path}]

\* mutant: the running path is not recorded on entry
RecordOnEntryNever(acc, path, shells_in_path) == acc

\* the check on entry to _find_chains: the running path is itself a chain
RecordOnEntry(acc, path, shells_in_path) ==
    IF Len(path) - 1 >= MIN_CHAIN_HOPS /\ Len(shells_in_path) >= 1
    THEN RecordChain(acc, path, shells_in_path, Len(path) - 1)
    ELSE acc

\* _find_chains, the body of its loop for one neighbour, and the loop over
\* the neighbours from index i on; acc holds results and seen
RECURSIVE _find_chains(_, _, _, _, _, _)
\* "for neighbor in graph.get_neighbors(current)", one neighbour
ExtendChain(g, path, visited, shells_in_path, acc, neighbor) ==
    IF neighbor \in visited \/ neighbor \notin DOMAIN g.stats THEN acc
    ELSE IF _is_shell_account(total_degree(g.stats[neighbor]))
    THEN _find_chains(g, neighbor, Append(path, neighbor),
                      visited \cup {neighbor},
                      Append(shells_in_path, neighbor), acc)
    ELSE IF Len(shells_in_path) >= 1 /\ Len(path) - 1 >= MIN_CHAIN_HOPS - 1
    THEN RecordChain(acc, Append(path, neighbor), shells_in_path, Len(path))
    ELSE acc

ExtendChains(g, current, path, visited, shells_in_path, acc, i) ==
    ForRange(LAMBDA acc1, k :
                 ExtendChain(g, path, visited, shells_in_path, acc1,
                             get_neighbors(g, current)[k]),
             acc, i, Len(get_neighbors(g, current)))

\* _find_chains without the stop at MAX_CHAIN_HOPS
FindChainsNoDepthStop(g, current, path, visited, shells_in_path, acc) ==
    ExtendChains(g, current, path, visited, shells_in_path,
                 RecordOnEntry(acc, path, shells_in_path), 1)

_find_chains(g, current, path, visited, shells_in_path, acc) ==
    IF Len(path) - 1 >= MAX_CHAIN_HOPS
    THEN RecordOnEntry(acc, path, shells_in_path)
    ELSE ExtendChains(g, current, path, visited, shells_in_path,
                      RecordOnEntry(acc, path, shells_in_path), 1)

\* the body of "for start_node in graph.nodes"
ShellStart(g, start_node, acc) ==
    IF /\ start_node \in DOMAIN g.stats
       /\ _is_shell_account(total_degree(g.stats[start_node]))
    THEN acc
    ELSE _find_chains(g, start_node, <<start_node>>, {start_node}, <<>>, acc)

\* the loop "for start_node in graph.nodes" from order[i] on, the nodes in
\* the order given
ShellStarts(g, order, i, acc) ==
    ForRange(LAMBDA acc1, k : ShellStart(g, order[k], acc1), acc, i, Len(order))

\* detect_shell_networks, graph.nodes being iterated under the seed
detect_shell_networks(g, seed) ==
    ShellStarts(g, IterSet(g.nodes, seed), 1, [results |-> <<>>, seen |-> {}]).results

(***************************************************************************)
(* detectors/smurfing.py                                                   *)
(***************************************************************************)
WINDOW_HOURS == 72
THRESHOLD == 10

\* timestamps are minutes; timedelta(hours=WINDOW_HOURS) in minutes
MinutesPerHour == 60
Window == WINDOW_HOURS * MinutesPerHour

SmurfingRing(hub, counterparties, pattern) ==
    [hub_account |-> hub, counterparties |-> counterparties, pattern |-> pattern,
     members |-> <<hub>> \o counterparties]

\* sorted(edges, key=lambda e: e.timestamp): a stable insertion sort; e goes
\* behind the edges of sorted that are not later than it
InsertByTimestamp(sorted, e) ==
    LET before == SelectSeq(sorted, LAMBDA x : x.timestamp <= e.timestamp)
        after == SelectSeq(sorted, LAMBDA x : x.timestamp > e.timestamp)
    IN  before \o <<e>> \o after

SortByTimestamp(edges) ==
    ForRange(LAMBDA sorted, i : InsertByTimestamp(sorted, edges[i]),
             <<>>, 1, Len(edges))

\* the window test with ">=" in place of ">"
RECURSIVE ShrinkLeftExclusive(_, _, _)
ShrinkLeftExclusive(sorted_edges, left, right) ==
    IF sorted_edges[right].timestamp - sorted_edges[left].timestamp >= Window
    THEN ShrinkLeftExclusive(sorted_edges, left + 1, right)
    ELSE left

\* "while sorted_edges[right].timestamp - sorted_edges[left].timestamp > window"
RECURSIVE ShrinkLeft(_, _, _)
ShrinkLeft(sorted_edges, left, right) ==
    IF sorted_edges[right].timestamp - sorted_edges[left].timestamp > Window
    THEN ShrinkLeft(sorted_edges, left + 1, right)
    ELSE left

\* the state of the sliding-window loop
WindowState(left, best_partners) ==
    [left |-> left, best_partners |-> best_partners]

\* one iteration of the sliding-window loop keeping the later of two windows
\* with the same number of partners
SlideKeepingLater(sorted_edges, w, right) ==
    LET left1 == ShrinkLeft(sorted_edges, w.left, right)
        current_partners == {sorted_edges[i].target : i \in left1..right}
    IN  WindowState(left1,
            IF /\ Cardinality(current_partners) >= THRESHOLD
               /\ Cardinality(current_partners) >= Cardinality(w.best_partners)
            THEN current_partners
            ELSE w.best_partners)

\* the sliding-window loop keeping the later of two windows with the same
\* number of partners
SlideWindowKeepingLater(sorted_edges, left, right, best_partners) ==
    ForRange(LAMBDA w, r : SlideKeepingLater(sorted_edges, w, r),
             WindowState(left, best_partners), right,
             Len(sorted_edges)).best_partners

\* one iteration of "for right in range(len(sorted_edges))"
Slide(sorted_edges, w, right) ==
    LET left1 == ShrinkLeft(sorted_edges, w.left, right)
        current_partners == {sorted_edges[i].target : i \in left1..right}
    IN  WindowState(left1,
            IF /\ Cardinality(current_partners) >= THRESHOLD
               /\ Cardinality(current_partners) > Cardinality(w.best_partners)
            THEN current_partners
            ELSE w.best_partners)

\* the sliding-window loop from index right on
SlideWindow(sorted_edges, left, right, best_partners) ==
    ForRange(LAMBDA w, r : Slide(sorted_edges, w, r),
             WindowState(left, best_partners), right,
             Len(sorted_edges)).best_partners

\* the partners of all the edges, whatever their timestamps
PartnersOfAllEdges(edges) ==
    IF Len(edges) < THRESHOLD THEN {}
    ELSE {edges[i].target : i \in 1..Len(edges)}

\* _check_temporal_window and _check_temporal_window_outgoing (the same code):
\* the partner set, or {} for None
_check_temporal_window(edges) ==
    IF Len(edges) < THRESHOLD THEN {}
    ELSE LET best_partners == SlideWindow(SortByTimestamp(edges), 1, 1, {})
         IN  IF Cardinality(best_partners) >= THRESHOLD THEN best_partners ELSE {}

\* the body of "for node in graph.nodes" for one direction
SmurfingDirection(results, node, edges, pattern, seed) ==
    IF Len(edges) >= THRESHOLD
    THEN LET partners == _check_temporal_window(edges)
         IN  IF partners # {}
             THEN Append(results, SmurfingRing(node, IterSet(partners, seed), pattern))
             ELSE results
    ELSE results

\* the body of "for node in graph.nodes": the incoming edges, then the
\* outgoing edges
SmurfingNode(g, node, results, seed) ==
    SmurfingDirection(
        SmurfingDirection(results, node, get_incoming_edges(g, node),
                          "fan_in", seed),
        node, get_outgoing_edges(g, node), "fan_out", seed)

\* the loop "for node in graph.nodes" from order[i] on, the nodes in the
\* order given
SmurfingNodes(g, order, i, results, seed) ==
    ForRange(LAMBDA r, k : SmurfingNode(g, order[k], r, seed),
             results, i, Len(order))

\* detect_smurfing, graph.nodes and each partner set being iterated under the
\* seed (a node is visited once, so flagged_fan_in / flagged_fan_out never
\* hold the node being visited)
detect_smurfing(g, seed) == SmurfingNodes(g, IterSet(g.nodes, seed), 1, <<>>, seed)

(***************************************************************************)
(* scorer.py (scores are held in tenths: 405 is 40.5)                      *)
(***************************************************************************)
MULTI_PATTERN_BONUS == 15

\* every pattern with the default base score
PatternBaseScoreDefault(pattern) == 20

\* PATTERN_BASE_SCORES.get(p, 20.0)
PatternBaseScore(pattern) ==
    CASE pattern = "cycle" -> 40
      [] pattern = "smurfing" -> 30
      [] pattern = "layered_shell" -> 30
      [] OTHER -> 20

\* every pattern type with severity 1.0
RingSeverityFlat(pattern_type) == 10

\* RING_SEVERITY.get(pattern_type, 1.0), in tenths
RingSeverity(pattern_type) ==
    CASE pattern_type = "cycle" -> 12
      [] pattern_type = "smurfing" -> 10
      [] pattern_type = "layered_shell" -> 11
      [] OTHER -> 10

\* round(num / den, 1) in tenths, num >= 0: to the nearest tenth, a tie to
\* the even tenth
RoundTenths(num, den) ==
    LET q == (10 * num) \div den
        r == (10 * num) % den
    IN  IF 2 * r > den THEN q + 1
        ELSE IF 2 * r < den THEN q
        ELSE IF q % 2 = 0 THEN q ELSE q + 1

Min(a, b) == IF a <= b THEN a ELSE b

RECURSIVE SumBase(_)
SumBase(patterns) ==
    IF patterns = {} THEN 0
    ELSE LET x == CHOOSE y \in patterns : TRUE
         IN  PatternBaseScore(x) + SumBase(patterns \ {x})

\* the score score_accounts gives one account, in tenths
AccountScore(patterns, involvement) ==
    LET base == SumBase(patterns)
        \* base *= 1 + (involvement - 1) * 0.15, in hundredths
        scaled == IF involvement > 1
                  THEN base * (100 + (involvement - 1) * 15)
                  ELSE base * 100
        bonus == IF Cardinality(patterns) > 1 THEN MULTI_PATTERN_BONUS * 100 ELSE 0
    IN  Min(RoundTenths(scaled + bonus, 100), 1000)

SumSeq(q) == ForRange(LAMBDA sum, i : sum + q[i], 0, 1, Len(q))

\* floor(log2(num / den)): the binary exponent of the double num / den
RECURSIVE FloorLog2(_, _)
FloorLog2(num, den) ==
    IF num >= 2 * den THEN FloorLog2(num, 2 * den) + 1
    ELSE IF num < den THEN FloorLog2(2 * num, den) - 1
    ELSE 0

\* (b ^ e) % m
RECURSIVE PowMod(_, _, _)
PowMod(b, e, m) ==
    IF e = 0 THEN 1 % m
    ELSE LET half == PowMod(b, e \div 2, m)
         IN  IF e % 2 = 0 THEN (half * half) % m ELSE (half * half * b) % m

\* what rounding a quotient to the nearest integer leaves out, q being the
\* remainder of the division by m: positive when rounded down
SignedRemainder(q, m) == IF 2 * q < m THEN q ELSE q - m

\* round(avg * severity, 1) when the exact product lies half-way between the
\* tenths q and q + 1, avg = (h / 2) / n and severity = c10 / 10 being IEEE
\* doubles (53-bit mantissa, round to nearest, ties to even): the doubles
\* avg and severity differ from the quotients by rho1 and rhoc of their last
\* place, the double product lies k places above the double just below the
\* half-way point, and round gives q + 1 when the product is above the
\* half-way point, q when below, the even tenth when it is the half-way point
RoundFloatTie(h, n, c10, q) ==
    LET m == 2 * q + 1
        e_t == FloorLog2(m, 20)
        e_a == FloorLog2(h, 2 * n)
        rho1 == SignedRemainder(((h % n) * PowMod(2, 52 - e_a - 1, n)) % n, n)
        rhoc == SignedRemainder(((c10 % 10) * PowMod(2, 52, 10)) % 10, 10)
        r20 == ((m % 20) * PowMod(2, 52 - e_t, 20)) % 20
        r40 == ((m % 40) * PowMod(2, 52 - e_t, 40)) % 40
        X == r20 * n * 64 - h * rhoc * 2^(6 - e_t)
                 - 2 * c10 * rho1 * 2^(6 - (e_t - e_a))
        D == 20 * n * 64
        k0 == IF X >= 0 THEN X \div D ELSE -((-X + D - 1) \div D)
        rem == X - k0 * D
        k == IF 2 * rem > D THEN k0 + 1
             ELSE IF 2 * rem < D THEN k0
             ELSE IF rho1 * rhoc > 0 THEN k0 + 1
             ELSE IF rho1 * rhoc < 0 THEN k0
             ELSE IF (((r40 - r20) \div 20) + k0) % 2 = 0 THEN k0 ELSE k0 + 1
    IN  IF r20 = 0
        THEN IF k = 0 THEN (IF q % 2 = 0 THEN q ELSE q + 1)
             ELSE IF k > 0 THEN q + 1 ELSE q
        ELSE IF k >= 1 THEN q + 1 ELSE q

\* round((h / 2) / n * (c10 / 10), 1) in tenths, as the doubles give it
RoundFloatTenths(h, n, c10) ==
    LET q == (h * c10) \div (2 * n)
        r == (h * c10) % (2 * n)
    IN  IF r > n THEN q + 1
        ELSE IF r < n THEN q
        ELSE RoundFloatTie(h, n, c10, q)

\* the half-way case rounded to the even tenth, as exact arithmetic would
RoundHalfEvenTenths(h, n, c10) == RoundTenths(h * c10, 20 * n)

\* score_ring, member scores and result in tenths; the member scores are
\* multiples of 0.5 (score_accounts gives no others), so their sum is exact
score_ring(member_scores, pattern_type) ==
    IF member_scores = <<>> THEN 0
    ELSE Min(RoundFloatTenths(SumSeq(member_scores) \div 5, Len(member_scores),
                              RingSeverity(pattern_type)),
             1000)

(***************************************************************************)
(* analyzer.py: aggregation, scoring, output                               *)
(***************************************************************************)
\* the counter without the zero padding
RingIdUnpadded(n) == "RING_" \o ToString(n)

\* f"RING_{ring_counter:03d}"
RingId(n) ==
    IF n < 10 THEN "RING_00" \o ToString(n)
    ELSE IF n < 100 THEN "RING_0" \o ToString(n)
    ELSE "RING_" \o ToString(n)

\* the aggregator's maps before the first ring; account_order is the
\* insertion order of the keys of account_patterns
AggregateInit ==
    [account_patterns |-> <<>>, account_pattern_details |-> <<>>,
     account_ring_ids |-> <<>>, account_involvement |-> <<>>,
     account_order |-> <<>>, fraud_rings |-> <<>>, ring_counter |-> 0]

\* the member loop leaving out the first member of the ring
\* the body of "for member in ring.members"
AddMember(agg, member, family, detail, ring_id) ==
    [agg EXCEPT
        !.account_patterns = Put(@, member, Get(@, member, {}) \cup {family}),
        !.account_pattern_details =
            Put(@, member, Get(@, member, {}) \cup {detail}),
        !.account_ring_ids = Put(@, member, ring_id),
        !.account_involvement = Put(@, member, Get(@, member, 0) + 1),
        !.account_order =
            IF member \in DOMAIN agg.account_patterns THEN @
            ELSE Append(@, member)]

AddMembersAfterFirst(agg, members, i, family, details, ring_id) ==
    ForRange(LAMBDA agg1, k :
                 AddMember(agg1, members[k], family, details[k], ring_id),
             agg, IF i = 1 THEN 2 ELSE i, Len(members))

\* the inner loop "for member in ring.members" from index i on
AddMembers(agg, members, i, family, details, ring_id) ==
    ForRange(LAMBDA agg1, k :
                 AddMember(agg1, members[k], family, details[k], ring_id),
             agg, i, Len(members))

\* every member is given the ID of the first ring instead of its ring's ID
AddRingStampingFirstId(agg, members, family, details) ==
    LET counter == agg.ring_counter + 1
        agg1 == AddMembers([agg EXCEPT !.ring_counter = counter],
                           members, 1, family, details, RingId(1))
    IN  [agg1 EXCEPT !.fraud_rings =
            Append(@, [ring_id |-> RingId(counter), member_accounts |-> members,
                       pattern_type |-> family])]

\* one iteration of a "for ring in ..." loop of the aggregation step
AddRing(agg, members, family, details) ==
    LET counter == agg.ring_counter + 1
        ring_id == RingId(counter)
        agg1 == AddMembers([agg EXCEPT !.ring_counter = counter],
                           members, 1, family, details, ring_id)
    IN  [agg1 EXCEPT !.fraud_rings =
            Append(@, [ring_id |-> ring_id, member_accounts |-> members,
                       pattern_type |-> family])]

AddCycleRings(agg, rings, i) ==
    ForRange(LAMBDA agg1, k :
                 AddRing(agg1, rings[k].members, "cycle",
                         [j \in 1..Len(rings[k].members) |->
                             "cycle_length_" \o ToString(rings[k].length)]),
             agg, i, Len(rings))

AddSmurfingRings(agg, rings, i) ==
    ForRange(LAMBDA agg1, k :
                 AddRing(agg1, rings[k].members, "smurfing",
                         [j \in 1..Len(rings[k].members) |-> rings[k].pattern]),
             agg, i, Len(rings))

AddShellChains(agg, chains, i) ==
    ForRange(LAMBDA agg1, k :
                 AddRing(agg1, chains[k].members, "layered_shell",
                         [j \in 1..Len(chains[k].members) |->
                             IF chains[k].members[j]
                                    \in Range(chains[k].shell_accounts)
                             THEN "shell_intermediary"
                             ELSE "layered_shell"]),
             agg, i, Len(chains))

\* Step 4: cycles first, then smurfing rings, then shell chains
Aggregate(det) ==
    AddShellChains(
        AddSmurfingRings(
            AddCycleRings(AggregateInit, det.cycle_rings, 1),
            det.smurfing_rings, 1),
        det.shell_chains, 1)

\* score_accounts: account -> score
score_accounts(account_patterns, account_involvement) ==
    [a \in DOMAIN account_patterns |->
        AccountScore(account_patterns[a], Get(account_involvement, a, 1))]

\* an insertion that puts an account before the accounts of equal score
InsertByScoreBeforeEqual(sorted, a, scores) ==
    LET before == SelectSeq(sorted, LAMBDA x : scores[x] > scores[a])
        after == SelectSeq(sorted, LAMBDA x : scores[x] <= scores[a])
    IN  before \o <<a>> \o after

\* sorted(account_scores.items(), key=lambda x: -x[1]): a stable insertion
\* sort of the accounts, in the dict's order, by descending score; a goes
\* behind the accounts of sorted whose score is not lower than its own
InsertByScore(sorted, a, scores) ==
    LET before == SelectSeq(sorted, LAMBDA x : scores[x] >= scores[a])
        after == SelectSeq(sorted, LAMBDA x : scores[x] < scores[a])
    IN  before \o <<a>> \o after

SortByScore(order, scores) ==
    ForRange(LAMBDA sorted, i : InsertByScore(sorted, order[i], scores),
             <<>>, 1, Len(order))

\* the keys of graph.adj in insertion order: the senders in order of first
\* appearance
SenderOrder(txns) ==
    ForRange(LAMBDA before, i :
                 IF txns[i].sender_id \in Range(before) THEN before
                 ELSE Append(before, txns[i].sender_id),
             <<>>, 1, Len(txns))

\* graph_edges with one entry per sender only
GraphEdgesOnePerSender(g, senders, i) ==
    ForRange(LAMBDA graph_edges, k :
                 Append(graph_edges,
                        [id |-> g.adj[senders[k]][1].transaction_id,
                         source |-> senders[k],
                         target |-> g.adj[senders[k]][1].target,
                         amount |-> g.adj[senders[k]][1].amount,
                         timestamp |-> g.adj[senders[k]][1].timestamp]),
             <<>>, i, Len(senders))

\* Step 7, "for source, edges in graph.adj.items(): for edge in edges" from
\* senders[i] on
GraphEdges(g, senders, i) ==
    ForRange(LAMBDA graph_edges, k :
                 graph_edges \o
                 [j \in 1..Len(g.adj[senders[k]]) |->
                    [id |-> g.adj[senders[k]][j].transaction_id,
                     source |-> senders[k],
                     target |-> g.adj[senders[k]][j].target,
                     amount |-> g.adj[senders[k]][j].amount,
                     timestamp |-> g.adj[senders[k]][j].timestamp]],
             <<>>, i, Len(senders))

\* Step 7, one node: next(iter(pattern_set), None) normalized for the frontend
NodePatternType(pattern_set, seed) ==
    IF pattern_set = {} THEN None
    ELSE LET raw_pattern == IterSet(pattern_set, seed)[1]
         IN  IF raw_pattern = "layered_shell" THEN "shell" ELSE raw_pattern

\* Steps 5 to 7 of analyze once the rings are scored and the accounts
\* ranked: suspicious_accounts, the graph data and the summary
ReportOfLists(txns, g, agg, account_scores, fraud_rings, ranked, node_order,
              seed, elapsed) ==
    LET suspicious_accounts ==
            [i \in 1..Len(ranked) |->
                [account_id |-> ranked[i],
                 suspicion_score |-> account_scores[ranked[i]],
                 detected_patterns |->
                    IterSet(Get(agg.account_pattern_details, ranked[i], {}), seed),
                 ring_id |-> Get(agg.account_ring_ids, ranked[i], "UNKNOWN")]]
        graph_nodes ==
            [i \in 1..Len(node_order) |->
                LET node_id == node_order[i]
                IN  [id |-> node_id,
                     riskScore |-> Get(account_scores, node_id, 0),
                     suspicious |-> node_id \in DOMAIN account_scores,
                     ringId |-> Get(agg.account_ring_ids, node_id, None),
                     patternType |->
                        NodePatternType(Get(agg.account_patterns, node_id, {}),
                                        seed),
                     totalTransactions |->
                        IF node_id \in DOMAIN g.stats
                        THEN total_txn_count(g.stats[node_id]) ELSE 0]]
    IN  [suspicious_accounts |-> suspicious_accounts,
         fraud_rings |-> fraud_rings,
         graph |->
            [nodes |-> graph_nodes,
             edges |-> GraphEdges(g, SenderOrder(txns), 1),
             rings |->
                [i \in 1..Len(fraud_rings) |->
                    [ringId |-> fraud_rings[i].ring_id,
                     patternType |->
                        IF fraud_rings[i].pattern_type = "layered_shell"
                        THEN "shell" ELSE fraud_rings[i].pattern_type,
                     memberCount |-> Len(fraud_rings[i].member_accounts),
                     riskScore |-> fraud_rings[i].risk_score,
                     members |-> fraud_rings[i].member_accounts]]],
         summary |->
            [total_accounts_analyzed |-> node_count(g),
             suspicious_accounts_flagged |-> Len(suspicious_accounts),
             fraud_rings_detected |-> Len(fraud_rings),
             processing_time_seconds |-> elapsed]]

\* "ring.risk_score = score_ring(member_scores, ring.pattern_type)" for
\* every ring of fraud_rings
ScoredRings(rings, account_scores) ==
    [i \in 1..Len(rings) |->
        LET ring == rings[i]
        IN  [ring_id |-> ring.ring_id,
             member_accounts |-> ring.member_accounts,
             pattern_type |-> ring.pattern_type,
             risk_score |->
                score_ring([j \in 1..Len(ring.member_accounts) |->
                               Get(account_scores, ring.member_accounts[j], 0)],
                           ring.pattern_type)]]

\* Steps 5 to 7 of analyze once score_accounts has returned account_scores
ReportOfScores(txns, g, agg, account_scores, seed, elapsed) ==
    ReportOfLists(txns, g, agg, account_scores,
                  ScoredRings(agg.fraud_rings, account_scores),
                  SortByScore(agg.account_order, account_scores),
                  IterSet(g.nodes, seed), seed, elapsed)

\* Steps 5 to 7 of analyze on the maps agg of the aggregation
ReportOfAggregate(txns, g, agg, seed, elapsed) ==
    ReportOfScores(txns, g, agg,
                   score_accounts(agg.account_patterns, agg.account_involvement),
                   seed, elapsed)

\* Steps 4 to 7 of analyze: the report for the accepted transactions txns,
\* their graph g and the detector outputs det; elapsed is the measured time
Report(txns, g, det, seed, elapsed) ==
    ReportOfAggregate(txns, g, Aggregate(det), seed, elapsed)

\* hash((a, b, ...)) of a found cycle under a seed, and the iteration order of
\* found_cycles, a set of tuples
TupleKey(t, seed) ==
    LET weighted[i \in 0..Len(t)] ==
            IF i = 0 THEN 0 ELSE weighted[i - 1] + i * HashKey(t[i], seed)[1]
        code[i \in 0..Len(t)] ==
            IF i = 0 THEN 0
            ELSE code[i - 1] * (Len(HashUniverse) + 1) + HashIndex(t[i])
    IN  <<weighted[Len(t)] % (Len(HashUniverse) + 1), code[Len(t)]>>

RECURSIVE IterTuples(_, _)
IterTuples(S, seed) ==
    IF S = {} THEN <<>>
    ELSE LET m == CHOOSE x \in S :
                    \A y \in S : x = y \/ KeyLess(TupleKey(x, seed), TupleKey(y, seed))
         IN  <<m>> \o IterTuples(S \ {m}, seed)

\* detect_cycles as a function of the graph and the seed
detect_cycles(g, seed) == CycleResults(IterTuples(FoundCycles(g), seed))

\* run_detectors: the three detector outputs
run_detectors(g, seed) ==
    [cycle_rings |-> detect_cycles(g, seed),
     smurfing_rings |-> detect_smurfing(g, seed),
     shell_chains |-> detect_shell_networks(g, seed)]

\* the outputs substituted when the detectors time out
EmptyDetectorOutputs ==
    [cycle_rings |-> <<>>, smurfing_rings |-> <<>>, shell_chains |-> <<>>]

(***************************************************************************)
(* parser.py                                                               *)
(***************************************************************************)
\* reader.fieldnames of a buffer with no header row (None in the source: a
\* header row that is present always has at least one name)
NoFieldnames == <<>>

REQUIRED_COLUMNS ==
    {"transaction_id", "sender_id", "receiver_id", "amount", "timestamp"}

\* str.strip() on the cells and header names of the inputs below
Strip(s) ==
    CASE s = " T1 " -> "T1"
      [] s = " 100" -> "100"
      [] s = "   " -> ""
      [] s = " Transaction_ID " -> "Transaction_ID"
      [] s = "receiver_id " -> "receiver_id"
      [] s = " Amount" -> "Amount"
      [] OTHER -> s

\* str.lower() on the header names of the inputs below
Lower(s) ==
    CASE s = "Transaction_ID" -> "transaction_id"
      [] s = "SENDER_ID" -> "sender_id"
      [] s = "Amount" -> "amount"
      [] OTHER -> s

\* float(amount_str): the number, or ValueError
ParseFloat(s) ==
    CASE s = "100" -> [ok |-> TRUE, value |-> Num(100)]
      [] s = "250" -> [ok |-> TRUE, value |-> Num(250)]
      [] s = "0" -> [ok |-> TRUE, value |-> Num(0)]
      [] s = "-5" -> [ok |-> TRUE, value |-> Num(-5)]
      [] s = "nan" -> [ok |-> TRUE, value |-> NaN]
      [] s = "inf" -> [ok |-> TRUE, value |-> Inf]
      [] OTHER -> [ok |-> FALSE, value |-> Num(0)]

\* amount <= 0 on floats: every comparison with nan is False
LeqZero(a) == a.kind = "num" /\ a.val <= 0

\* datetime.strptime(ts_str, "%Y-%m-%d %H:%M:%S"): minutes since 2024-01-01
\* 00:00:00, or ValueError
Strptime(s) ==
    CASE s = "2024-01-01 10:00:00" -> [ok |-> TRUE, value |-> 600]
      [] s = "2024-01-01 10:05:00" -> [ok |-> TRUE, value |-> 605]
      [] OTHER -> [ok |-> FALSE, value |-> 0]

\* cleaned_fieldnames
CleanedFieldnames(fieldnames) ==
    [i \in 1..Len(fieldnames) |-> Lower(Strip(fieldnames[i]))]

\* col_map: the original name of each required column (the last one, when
\* several clean to the same name)
ColMap(fieldnames) ==
    LET cleaned == CleanedFieldnames(fieldnames)
    IN  [c \in REQUIRED_COLUMNS \cap Range(cleaned) |->
            LET i == CHOOSE j \in 1..Len(cleaned) :
                        /\ cleaned[j] = c
                        /\ \A k \in (j + 1)..Len(cleaned) : cleaned[k] # c
            IN  fieldnames[i]]

\* csv.DictReader: the dict of a row; a column beyond the row's last cell is
\* None, cells beyond the last column are kept under another key
RowDict(fieldnames, row) ==
    [f \in Range(fieldnames) |->
        LET i == CHOOSE j \in 1..Len(fieldnames) :
                    /\ fieldnames[j] = f
                    /\ \A k \in (j + 1)..Len(fieldnames) : fieldnames[k] # f
        IN  IF i <= Len(row) THEN row[i] ELSE None]

\* the body of the for loop of parse_csv on one row: the transactions and
\* seen ids after it, and the exception that escapes it ("" when none does)
ProcessRow(fieldnames, row, txns, seen) ==
    LET col_map == ColMap(fieldnames)
        d == RowDict(fieldnames, row)
        cell(c) == d[col_map[c]]
        skip == [transactions |-> txns, seen_ids |-> seen, raised |-> ""]
    IN  IF \E c \in REQUIRED_COLUMNS : cell(c) = None
        THEN \* None.strip(): AttributeError is not among the caught exceptions
             [skip EXCEPT !.raised = "AttributeError"]
        ELSE
        LET txn_id == Strip(cell("transaction_id"))
            sender == Strip(cell("sender_id"))
            receiver == Strip(cell("receiver_id"))
            amount_str == Strip(cell("amount"))
            ts_str == Strip(cell("timestamp"))
            amount == ParseFloat(amount_str)
            timestamp == Strptime(ts_str)
            accepted == /\ sender # receiver
                        /\ amount.ok
                        /\ ~LeqZero(amount.value)
                        /\ timestamp.ok
            \* seen_ids.add(txn_id) runs before the checks that follow it
            seen1 == seen \cup {txn_id}
        IN  IF "" \in {txn_id, sender, receiver, amount_str, ts_str} THEN skip
            ELSE IF txn_id \in seen THEN skip
            ELSE IF ~accepted THEN [skip EXCEPT !.seen_ids = seen1]
            ELSE [transactions |->
                      Append(txns, Transaction(txn_id, sender, receiver,
                                               amount.value, timestamp.value)),
                  seen_ids |-> seen1,
                  raised |-> ""]

\* the for loop of parse_csv from the i-th data row on; st holds the
\* transactions, the seen ids, the exception that escaped and, for each row
\* read, whether it was accepted
\* the state of the row loop after a row: r is what the row left of
\* transactions and seen_ids, or the exception it raised; accepted_at notes
\* whether the row was appended
AfterRow(st, r) ==
    [transactions |-> r.transactions, seen_ids |-> r.seen_ids,
     raised |-> r.raised,
     accepted_at |->
        Append(st.accepted_at, Len(r.transactions) > Len(st.transactions))]

RECURSIVE ParseRowsFrom(_, _, _, _)
ParseRowsFrom(fieldnames, data, i, st) ==
    IF i > Len(data) \/ st.raised # "" THEN st
    ELSE ParseRowsFrom(fieldnames, data, i + 1,
            AfterRow(st,
                IF data[i] = <<>>
                THEN [transactions |-> st.transactions, seen_ids |-> st.seen_ids,
                      raised |-> ""]
                ELSE ProcessRow(fieldnames, data[i], st.transactions,
                                st.seen_ids)))

\* parse_csv on a UTF-8 buffer with a header row: the transactions returned,
\* or the exception raised
parse_csv(fieldnames, data) ==
    IF REQUIRED_COLUMNS \ Range(CleanedFieldnames(fieldnames)) # {}
    THEN [transactions |-> <<>>, seen_ids |-> {}, raised |-> "CSVParseError",
          accepted_at |-> <<>>]
    ELSE LET st == ParseRowsFrom(fieldnames, data, 1,
                       [transactions |-> <<>>, seen_ids |-> {}, raised |-> "",
                        accepted_at |-> <<>>])
         IN  IF st.raised = "" /\ st.transactions = <<>>
             THEN [st EXCEPT !.raised = "CSVParseError"]
             ELSE st

(***************************************************************************)
(* The state of a component that a specification does not drive            *)
(***************************************************************************)
GraphIdle ==
    /\ graph = TransactionGraph
    /\ added = <<>>

ParseIdle ==
    /\ content = [utf8 |-> TRUE, fieldnames |-> NoFieldnames]
    /\ rows = <<>>
    /\ ppc = "idle"
    /\ transactions = <<>>
    /\ seen_ids = {}
    /\ accepted_at = <<>>
    /\ outcome = ""

CycleIdle ==
    /\ cyc = [pc |-> "idle"]
    /\ cycle_rings = <<>>
    /\ caps = Limits

AnalyzeIdle ==
    /\ csv_content = <<>>
    /\ hash_seed = 1
    /\ apc = "idle"
    /\ an_graph = TransactionGraph
    /\ detected = EmptyDetectorOutputs
    /\ timed_out = FALSE
    /\ reports = <<>>

PairIdle ==
    /\ csv_pair = [fieldnames |-> NoFieldnames, original |-> <<>>, with_copy |-> <<>>]
    /\ pair_runs = [original |-> <<>>, with_copy |-> <<>>]

NormIdle ==
    /\ norm_path = <<>>
    /\ norm_calls = <<>>
    /\ norm_rings = <<>>

RunIdle ==
    /\ run_graph = TransactionGraph
    /\ run_seed = 1
    /\ ran = <<>>
    /\ run_outputs = EmptyDetectorOutputs

DetectorIdle ==
    /\ dpc = "idle"
    /\ smurfing_rings = <<>>
    /\ shell_chains = <<>>

TimeoutIdle ==
    /\ main = "idle"
    /\ worker = [pc |-> "idle", out |-> EmptyDetectorOutputs]
    /\ clock = 0
    /\ future = [done |-> FALSE, result |-> EmptyDetectorOutputs]

(***************************************************************************)
(* Specification SpecParse: analyze(csv_content) up to the report, with    *)
(* parse_csv run row by row                                                *)
(***************************************************************************)
\* how many data rows an input buffer has at most
MaxRows == 3

TS1 == "2024-01-01 10:00:00"
TS2 == "2024-01-01 10:05:00"

StdHeader == <<"transaction_id", "sender_id", "receiver_id", "amount", "timestamp">>

\* the header rows of the inputs: the plain header, one that needs trimming and
\* lowercasing, one with an extra column, one without the amount column
ParseHeaders ==
    {StdHeader,
     <<" Transaction_ID ", "SENDER_ID", "receiver_id ", " Amount", "timestamp">>,
     <<"transaction_id", "sender_id", "receiver_id", "amount", "timestamp", "note">>,
     <<"transaction_id", "sender_id", "receiver_id", "timestamp">>}

\* the input buffers: not UTF-8, empty (no header row), or a header row
ParseContents ==
    {[utf8 |-> FALSE, fieldnames |-> NoFieldnames], [utf8 |-> TRUE, fieldnames |-> NoFieldnames]}
    \cup {[utf8 |-> TRUE, fieldnames |-> h] : h \in ParseHeaders}

\* the data rows of the inputs: valid rows, rows with one defect, a row with
\* fewer cells than the header, a row with more, and a blank line
ParseRows ==
    {<<"T1", "A", "B", "100", TS1>>,
     <<"T2", "B", "A", "250", TS2>>,
     <<" T1 ", "B", "A", " 100", TS1>>,
     <<"T1", "A", "A", "100", TS1>>,
     <<"T1", "A", "B", "-5", TS1>>,
     <<"T1", "A", "B", "0", TS1>>,
     <<"T1", "A", "B", "abc", TS1>>,
     <<"T1", "A", "B", "nan", TS1>>,
     <<"T2", "A", "B", "inf", TS1>>,
     <<"T1", "A", "B", "100", "2024-01-01">>,
     <<"T1", "A", "B", "   ", TS1>>,
     <<"", "A", "B", "100", TS1>>,
     <<"T1", "A", "B">>,
     <<"T2", "B", "A", "250", TS2, "memo">>,
     <<>>}

ParseInit ==
    /\ content \in ParseContents
    /\ rows = <<>>
    /\ ppc = "decode"
    /\ transactions = <<>>
    /\ seen_ids = {}
    /\ accepted_at = <<>>
    /\ outcome = ""
    /\ GraphIdle
    /\ CycleIdle
    /\ AnalyzeIdle
    /\ TimeoutIdle
    /\ PairIdle
    /\ NormIdle
    /\ RunIdle
    /\ DetectorIdle

Raise(exc) ==
    /\ outcome' = exc
    /\ ppc' = "done"

\* content.decode("utf-8")
Decode ==
    /\ ppc = "decode"
    /\ IF content.utf8
       THEN ppc' = "header" /\ UNCHANGED outcome
       ELSE Raise("CSVParseError")
    /\ UNCHANGED <<content, rows, transactions, seen_ids, accepted_at, graphVars, otherThanParse>>

\* the header checks: reader.fieldnames is None, or a required column is missing
ReadHeader ==
    /\ ppc = "header"
    /\ IF content.fieldnames = NoFieldnames
       THEN Raise("CSVParseError")
       ELSE IF REQUIRED_COLUMNS \ Range(CleanedFieldnames(content.fieldnames)) # {}
       THEN Raise("CSVParseError")
       ELSE ppc' = "rows" /\ UNCHANGED outcome
    /\ UNCHANGED <<content, rows, transactions, seen_ids, accepted_at, graphVars, otherThanParse>>

\* one iteration of "for line_num, row in enumerate(reader, start=2)";
\* DictReader itself passes over blank lines
ReadRow ==
    /\ ppc = "rows"
    /\ Len(rows) < MaxRows
    /\ \E row \in ParseRows :
        LET r == IF row = <<>>
                 THEN [transactions |-> transactions, seen_ids |-> seen_ids,
                       raised |-> ""]
                 ELSE ProcessRow(content.fieldnames, row, transactions, seen_ids)
        IN  /\ rows' = Append(rows, row)
            /\ transactions' = r.transactions
            /\ seen_ids' = r.seen_ids
            /\ accepted_at' = Append(accepted_at,
                                     Len(r.transactions) > Len(transactions))
            /\ IF r.raised # ""
               THEN Raise(r.raised)
               ELSE UNCHANGED <<ppc, outcome>>
    /\ UNCHANGED <<content, graphVars, otherThanParse>>

\* the reader is exhausted: "if not transactions: raise", else return
EndOfRows ==
    /\ ppc = "rows"
    /\ IF transactions = <<>>
       THEN Raise("CSVParseError")
       ELSE ppc' = "build" /\ UNCHANGED outcome
    /\ UNCHANGED <<content, rows, transactions, seen_ids, accepted_at, graphVars, otherThanParse>>

\* analyze, after parse_csv has returned: build the graph and the report
AnalyzeRest ==
    /\ ppc = "build"
    /\ graph' = build_graph(transactions)
    /\ added' = transactions
    /\ outcome' = "report"
    /\ ppc' = "done"
    /\ UNCHANGED <<content, rows, transactions, seen_ids, accepted_at, otherThanParse>>

ParseNext == Decode \/ ReadHeader \/ ReadRow \/ EndOfRows \/ AnalyzeRest

SpecParse == ParseInit /\ [][ParseNext]_vars

\* the header row has every required column
HeaderOk ==
    /\ content.utf8
    /\ content.fieldnames # NoFieldnames
    /\ REQUIRED_COLUMNS \subseteq Range(CleanedFieldnames(content.fieldnames))

\* the required cells of a row, trimmed, by column name (None when absent)
CellOf(row, c) ==
    LET v == RowDict(content.fieldnames, row)[ColMap(content.fieldnames)[c]]
    IN  IF v = None THEN None ELSE Strip(v)

\* a row that passes every check other than the duplicate check: every
\* required cell present and non-empty, sender differs from receiver, the
\* amount a positive number, the timestamp well formed
PassesOtherChecks(row) ==
    /\ row # <<>>
    /\ \A c \in REQUIRED_COLUMNS : CellOf(row, c) \notin {None, ""}
    /\ CellOf(row, "sender_id") # CellOf(row, "receiver_id")
    /\ ParseFloat(CellOf(row, "amount")).ok
    /\ ParseFloat(CellOf(row, "amount")).value.kind = "num"
    /\ ParseFloat(CellOf(row, "amount")).value.val > 0
    /\ Strptime(CellOf(row, "timestamp")).ok

(* C1: analyze either raises CSVParseError or returns a complete report;   *)
(* no other exception escapes, also on a row with fewer cells than the     *)
(* header, which is skipped like any other malformed row.                  *)
C1_OnlyParseErrorEscapes ==
    outcome \in {"", "CSVParseError", "report"}

(* C5: a row that passes every other check and whose transaction_id was    *)
(* seen before only on rows that were skipped is accepted (a row is        *)
(* skipped as a duplicate only when an earlier accepted row has its id).   *)
C5_DuplicateOnlyOfAccepted ==
    HeaderOk =>
        \A i \in 1..Len(accepted_at) :
            ( /\ PassesOtherChecks(rows[i])
              /\ \A j \in 1..(i - 1) :
                    accepted_at[j] =>
                        CellOf(rows[j], "transaction_id")
                            # CellOf(rows[i], "transaction_id") )
            => accepted_at[i]

(* C6: every transaction parse_csv holds has a sender different from its   *)
(* receiver, an amount that is a real number greater than 0, and a         *)
(* transaction_id no other accepted transaction has; also for the amounts  *)
(* nan and inf, which the numeric parser accepts.                          *)
C6_AcceptedTransactionsValid ==
    \A i \in 1..Len(transactions) :
        /\ transactions[i].sender_id # transactions[i].receiver_id
        /\ transactions[i].amount.kind = "num"
        /\ transactions[i].amount.val > 0
        /\ \A j \in 1..Len(transactions) :
              j # i => transactions[j].transaction_id
                            # transactions[i].transaction_id

(* C7: parse_csv raises CSVParseError in each fatal case: bytes that are   *)
(* not UTF-8, no header row, a required column missing after trimming and  *)
(* lowercasing, or no row accepted by the end of the call.                 *)
C7_FatalCasesRaiseParseError ==
    (ppc = "done" /\ (~HeaderOk \/ transactions = <<>>))
        => outcome = "CSVParseError"

(***************************************************************************)
(* Specification SpecCycles: detect_cycles, one loop iteration per step,   *)
(* on a directed ring with extra edges                                     *)
(***************************************************************************)
\* the longest ring an input graph is built around
MaxRing == 6
\* how many extra edges an input graph has at most
MaxChords == 1

TxnIds ==
    <<"T1", "T2", "T3", "T4", "T5", "T6", "T7", "T8", "T9", "T10", "T11", "T12",
      "T13", "T14", "T15", "T16", "T17", "T18", "T19", "T20", "T21", "T22",
      "T23", "T24", "T25", "T26", "T27", "T28", "T29", "T30">>

\* the accepted transactions of a list of (sender, receiver) pairs, in row order
TxnsOfPairs(pairs) ==
    [i \in 1..Len(pairs) |->
        Transaction(TxnIds[i], pairs[i][1], pairs[i][2], Num(100), 600 + i)]

\* the ring A -> B -> ... -> A over the first k accounts
RingPairs(k) == [i \in 1..k |-> <<AccountIds[i], AccountIds[(i % k) + 1]>>]

\* the (sender, receiver) pairs of distinct accounts among the first k
ChordPairs(k) ==
    {<<AccountIds[i], AccountIds[j]>> : i \in 1..k, j \in 1..k} \
        {<<AccountIds[i], AccountIds[i]>> : i \in 1..k}

\* a list of rows in every order
PermutedRows(pairs) ==
    {[i \in 1..Len(pairs) |-> pairs[o[i]]] : o \in Orders(1..Len(pairs))}

\* the triangle A -> B -> C -> A, alone and with one edge doubled, in every row
\* order; the triangle with the opposite triangle A -> C -> B -> A, in three row
\* orders
TriangleRows == <<<<"A", "B">>, <<"B", "C">>, <<"C", "A">>>>
OppositeTriangleRows == <<<<"A", "C">>, <<"C", "B">>, <<"B", "A">>>>
TriangleInputs ==
    {TxnsOfPairs(pairs) :
        pairs \in PermutedRows(TriangleRows)
                \cup PermutedRows(Append(TriangleRows, <<"B", "C">>))
                \cup {TriangleRows \o OppositeTriangleRows,
                      OppositeTriangleRows \o TriangleRows,
                      <<TriangleRows[1], OppositeTriangleRows[1], TriangleRows[2],
                        OppositeTriangleRows[2], TriangleRows[3],
                        OppositeTriangleRows[3]>>}}

\* the inputs: a ring of 2..MaxRing accounts and up to MaxChords extra edges
\* (parallel and opposite edges included), listed before or after the ring
RingInputs ==
    UNION {
        UNION {
            {TxnsOfPairs(RingPairs(k) \o c), TxnsOfPairs(c \o RingPairs(k))} :
                c \in UNION {[1..m -> ChordPairs(k)] : m \in 0..MaxChords}} :
        k \in 2..MaxRing}

CycleInputs == RingInputs \cup TriangleInputs

CycleInit ==
    /\ \E txns \in CycleInputs :
        /\ added = txns
        /\ graph = build_graph(txns)
    /\ cyc = CycleSearchInit(graph)
    /\ cycle_rings = <<>>
    /\ caps = Limits
    /\ ParseIdle
    /\ AnalyzeIdle
    /\ TimeoutIdle
    /\ PairIdle
    /\ NormIdle
    /\ RunIdle
    /\ DetectorIdle

\* the head of "for start_node in candidates"
CycleFor ==
    /\ cyc.pc = "for"
    /\ cyc' = CycleSearchStep(graph, caps, cyc)
    /\ UNCHANGED <<cycle_rings, caps, otherThanCycles>>

\* one iteration of "while stack"
CycleWhile ==
    /\ cyc.pc = "while"
    /\ cyc' = CycleSearchStep(graph, caps, cyc)
    /\ UNCHANGED <<cycle_rings, caps, otherThanCycles>>

\* the conversion of found_cycles, a set, to the returned list, in the
\* iteration order the set has under the hash seed of the process
CycleReturn ==
    /\ cyc.pc = "convert"
    /\ \E seed \in HashSeeds :
        cycle_rings' = CycleResults(IterTuples(cyc.found_cycles, seed))
    /\ cyc' = [cyc EXCEPT !.pc = "returned"]
    /\ UNCHANGED <<caps, otherThanCycles>>

CycleNext == CycleFor \/ CycleWhile \/ CycleReturn

SpecCycles == CycleInit /\ [][CycleNext]_vars

\* the graph has a forward edge u -> v
HasEdge(g, u, v) == \E i \in 1..Len(get_neighbors(g, u)) : get_neighbors(g, u)[i] = v

(* C10: every CycleRing returned by detect_cycles has 3 to 5 members, the  *)
(* members are pairwise distinct, length is the number of members, every   *)
(* consecutive pair (cyclically) is a forward edge of the graph; a graph   *)
(* that is a 2-node mutual pair yields no cycle.                           *)
C10_CycleRingsWellFormed ==
    cyc.pc = "returned" =>
        /\ \A r \in 1..Len(cycle_rings) :
            LET c == cycle_rings[r] IN
            /\ Len(c.members) >= 3
            /\ Len(c.members) <= 5
            /\ c.length = Len(c.members)
            /\ \A i, j \in 1..Len(c.members) : i # j => c.members[i] # c.members[j]
            /\ \A i \in 1..Len(c.members) :
                  HasEdge(graph, c.members[i], c.members[(i % Len(c.members)) + 1])
        /\ Cardinality(graph.nodes) = 2 => cycle_rings = <<>>

\* C10 witness: a run that returned a 3-cycle and a 5-cycle
C10_Witness ==
    /\ cyc.pc = "returned"
    /\ \E r \in 1..Len(cycle_rings) : cycle_rings[r].length = 3
    /\ \E r \in 1..Len(cycle_rings) : cycle_rings[r].length = 5

\* a 6-ring was searched and nothing returned
C10_WitnessLongRing ==
    /\ cyc.pc = "returned"
    /\ Cardinality(graph.nodes) = 6
    /\ cycle_rings = <<>>

\* the (sender, receiver) pairs of a list of transactions
EdgePairs(txns) ==
    {<<txns[i].sender_id, txns[i].receiver_id>> : i \in 1..Len(txns)}

\* the simple paths of k accounts along the edges E whose first account is
\* the least of the path
RECURSIVE SimplePaths(_, _)
SimplePaths(E, k) ==
    IF k = 1 THEN {<<e[1]>> : e \in E}
    ELSE {Append(x[1], x[2][2]) :
            x \in {y \in SimplePaths(E, k - 1) \X E :
                     /\ y[2][1] = y[1][Len(y[1])]
                     /\ y[2][2] \notin Range(y[1])
                     /\ StrLess(y[1][1], y[2][2])}}

\* the directed simple cycles of 3 to 5 accounts, each written from its
\* least account on
SimpleCycles(E) ==
    UNION {{p \in SimplePaths(E, k) : <<p[k], p[1]>> \in E} : k \in 3..5}

(* C11: when neither cap is reached, detect_cycles returns exactly one     *)
(* CycleRing for each directed simple cycle of 3 to 5 accounts, rotations  *)
(* being one cycle and opposite directions two; the cycles are those of    *)
(* the edge relation, whatever the row order and the parallel edges; the   *)
(* lone triangle A -> B -> C -> A is returned exactly once.                *)
C11_ExactlyTheSimpleCycles ==
    (cyc.pc = "returned"
        /\ ~CapReached(Limits, cyc.found_cycles, cyc.iteration_count)) =>
        /\ Range(cycle_rings) = {CycleRing(c) : c \in SimpleCycles(EdgePairs(added))}
        /\ Len(cycle_rings) = Cardinality(SimpleCycles(EdgePairs(added)))
        /\ EdgePairs(added) = Range(TriangleRows)
              => cycle_rings = <<CycleRing(<<"A", "B", "C">>)>>

\* C11 witness: the triangle and its opposite were searched, with the row
\* A -> C first, and both directions returned
C11_Witness ==
    /\ cyc.pc = "returned"
    /\ added[1].receiver_id = "C"
    /\ Range(cycle_rings) = {CycleRing(<<"A", "B", "C">>), CycleRing(<<"A", "C", "B">>)}

\* the doubled triangle, the doubled edge listed first, returned one ring
C11_WitnessParallel ==
    /\ cyc.pc = "returned"
    /\ Len(added) = 4
    /\ added[1].sender_id = "B" /\ added[2].sender_id = "B"
    /\ Len(cycle_rings) = 1

(***************************************************************************)
(* Specification SpecCycleCaps: detect_cycles on complete directed graphs, *)
(* under the caps of the source and under lower ones that the search       *)
(* reaches early.  detect_cycles is a sequential loop: it takes its next   *)
(* step whenever it has one, hence the weak fairness.                      *)
(***************************************************************************)
MaxIterationCap == 30
MaxCycleCap == 3

\* every edge between two of the first k accounts, sender by sender
CliquePairs(k) ==
    [n \in 1..(k * (k - 1)) |->
        LET i == ((n - 1) \div (k - 1)) + 1
            r == ((n - 1) % (k - 1)) + 1
        IN  <<AccountIds[i], AccountIds[IF r < i THEN r ELSE r + 1]>>]

\* the complete graphs on three, four and five accounts; the last has 74
\* simple cycles of 3 to 5 accounts, more than MAX_CYCLES
CliqueSizes == {3, 4, 5}

CapsInputs == {TxnsOfPairs(CliquePairs(k)) : k \in CliqueSizes}

\* MAX_ITERATIONS and MAX_CYCLES as in the source, or one of them lowered
CapsTried ==
    {Limits}
        \cup {[Limits EXCEPT !.max_iterations = n] : n \in 1..MaxIterationCap}
        \cup {[Limits EXCEPT !.max_cycles = n] : n \in 1..MaxCycleCap}

CapsInit ==
    /\ \E txns \in CapsInputs :
        /\ added = txns
        /\ graph = build_graph(txns)
    /\ cyc = CycleSearchInit(graph)
    /\ cycle_rings = <<>>
    /\ caps \in CapsTried
    /\ ParseIdle
    /\ AnalyzeIdle
    /\ TimeoutIdle
    /\ PairIdle
    /\ NormIdle
    /\ RunIdle
    /\ DetectorIdle

\* what a step of CycleReturn does to the state of the search, whatever the
\* order of the list: CycleReturn is enabled exactly when this is, and the
\* steps of CycleNext that satisfy it are those of CycleReturn
SearchReturns ==
    /\ cyc.pc = "convert"
    /\ cyc' = [cyc EXCEPT !.pc = "returned"]

SpecCycleCaps ==
    /\ CapsInit
    /\ [][CycleNext]_vars
    /\ WF_vars(CycleFor \/ CycleWhile)
    /\ WF_cyc(SearchReturns)

\* the caps are reached in the state of the search
CapsHit == CapReached(caps, cyc.found_cycles, cyc.iteration_count)

\* the neighbours examined by an iteration of "while stack" that popped the
\* frame f: up to the neighbour it pushed, or to the end of the list
Examined(f, before, after) ==
    IF Len(after) > Len(before)
    THEN after[Len(before)].neighbor_idx - f.neighbor_idx
    ELSE Len(get_neighbors(graph, f.current)) - f.neighbor_idx

\* a step taken with the caps reached records no cycle, examines no
\* neighbour and opens no search from a further start node
C12_NothingAfterCap ==
    CapsHit =>
        /\ cyc'.found_cycles = cyc.found_cycles
        /\ cyc'.iteration_count <= cyc.iteration_count + 1
        /\ Len(cyc'.stack) <= Len(cyc.stack)
        /\ ~(cyc.pc = "for" /\ cyc'.pc = "while")

\* an iteration of "while stack" that pops a frame counts itself and every
\* neighbour it examines; when a cap stops it, it has counted no more
C12_CountsEveryNeighbour ==
    (cyc.pc = "while" /\ cyc.stack # <<>> /\ cyc'.pc = "while") =>
        LET examined == Examined(cyc.stack[Len(cyc.stack)], cyc.stack, cyc'.stack)
        IN  IF CapsHit'
            THEN cyc'.iteration_count <= cyc.iteration_count + 1 + examined
            ELSE cyc'.iteration_count = cyc.iteration_count + 1 + examined

(* C12: detect_cycles terminates and respects both caps: it never holds or *)
(* returns more than MAX_CYCLES cycles, the iteration counter counts every *)
(* neighbour examined and stops within one of MAX_ITERATIONS, once a cap   *)
(* is reached nothing more is examined, recorded or started, and the       *)
(* cycles found so far are returned.                                       *)
C12_CapsRespected ==
    /\ [](/\ Cardinality(cyc.found_cycles) <= caps.max_cycles
          /\ Len(cycle_rings) <= caps.max_cycles
          /\ cyc.iteration_count <= caps.max_iterations + 1
          /\ cyc.pc = "returned" =>
                Range(cycle_rings) = {CycleRing(c) : c \in cyc.found_cycles})
    /\ [][C12_NothingAfterCap /\ C12_CountsEveryNeighbour]_vars
    /\ <>(cyc.pc = "returned")

\* C12 witness: the search of the complete graph on five accounts returned
\* MAX_CYCLES cycles, fewer than the graph has
C12_Witness ==
    /\ cyc.pc = "returned"
    /\ caps = Limits
    /\ Len(cycle_rings) = MAX_CYCLES
    /\ Cardinality(SimpleCycles(EdgePairs(added))) > MAX_CYCLES

\* a search stopped by the iteration cap with a cycle found returned it
C12_WitnessIterations ==
    /\ cyc.pc = "returned"
    /\ cyc.iteration_count >= caps.max_iterations
    /\ Len(cycle_rings) > 0
    /\ Len(cycle_rings) < Cardinality(SimpleCycles(EdgePairs(added)))

(***************************************************************************)
(* Specification SpecGraph: any sequence of add_transaction calls          *)
(***************************************************************************)
\* how many add_transaction calls a run makes at most
MaxTxns == 3

GraphAccounts == {"A", "B", "C"}

\* the transactions a call may be given (self-loops and repeated ids included:
\* add_transaction itself rejects nothing)
GraphTxns ==
    {Transaction(id, s, r, IF id = "T1" THEN Num(100) ELSE Num(250),
                 IF id = "T1" THEN 0 ELSE 5) :
        id \in {"T1", "T2"}, s \in GraphAccounts, r \in GraphAccounts}

GraphInit ==
    /\ graph = TransactionGraph
    /\ added = <<>>
    /\ ParseIdle
    /\ CycleIdle
    /\ AnalyzeIdle
    /\ TimeoutIdle
    /\ PairIdle
    /\ NormIdle
    /\ RunIdle
    /\ DetectorIdle

AddTransaction ==
    /\ Len(added) < MaxTxns
    /\ \E txn \in GraphTxns :
        /\ graph' = add_transaction(graph, txn)
        /\ added' = Append(added, txn)
    /\ UNCHANGED otherThanGraph

GraphNext == AddTransaction

SpecGraph == GraphInit /\ [][GraphNext]_vars

\* the calls made so far whose sender (receiver) is n, in call order
CallsFrom(n) == SelectSeq(added, LAMBDA t : t.sender_id = n)
CallsTo(n) == SelectSeq(added, LAMBDA t : t.receiver_id = n)

RECURSIVE SumOver(_, _)
SumOver(f, S) ==
    IF S = {} THEN 0
    ELSE LET x == CHOOSE y \in S : TRUE IN f[x] + SumOver(f, S \ {x})

(* C8: after any sequence of add_transaction calls, adj[n] holds exactly   *)
(* one edge per call whose sender is n (target = the receiver) and         *)
(* reverse_adj[n] exactly one edge per call whose receiver is n (target =  *)
(* the sender), each with the call's amount, timestamp and transaction_id, *)
(* in call order; the node set is exactly the senders and receivers.       *)
C8_AdjacencyMirrorsCalls ==
    /\ graph.nodes = {added[i].sender_id : i \in 1..Len(added)}
                        \cup {added[i].receiver_id : i \in 1..Len(added)}
    /\ \A n \in GraphAccounts :
        /\ get_outgoing_edges(graph, n) =
              [i \in 1..Len(CallsFrom(n)) |->
                  LET t == CallsFrom(n)[i]
                  IN  Edge(t.receiver_id, t.amount, t.timestamp, t.transaction_id)]
        /\ get_incoming_edges(graph, n) =
              [i \in 1..Len(CallsTo(n)) |->
                  LET t == CallsTo(n)[i]
                  IN  Edge(t.sender_id, t.amount, t.timestamp, t.transaction_id)]

\* C8 witness: three calls, two of them from one sender to different receivers
C8_Witness ==
    /\ Len(added) >= 3
    /\ \E n \in graph.nodes :
        /\ Len(get_outgoing_edges(graph, n)) >= 2
        /\ get_outgoing_edges(graph, n)[1].target
             # get_outgoing_edges(graph, n)[2].target
        /\ get_outgoing_edges(graph, n)[1].target # n

(* C9: after any sequence of add_transaction calls every node has a stats  *)
(* entry, its in_degree is the length of reverse_adj[n] and its out_degree *)
(* the length of adj[n]; the in_degree sum, the out_degree sum and         *)
(* edge_count all equal the number of transactions added.                  *)
C9_DegreesMatchAdjacency ==
    /\ \A n \in graph.nodes :
        /\ n \in DOMAIN graph.stats
        /\ graph.stats[n].in_degree = Len(get_incoming_edges(graph, n))
        /\ graph.stats[n].out_degree = Len(get_outgoing_edges(graph, n))
    /\ DOMAIN graph.stats = graph.nodes
    /\ SumOver([n \in graph.nodes |-> graph.stats[n].in_degree], graph.nodes)
         = Len(added)
    /\ SumOver([n \in graph.nodes |-> graph.stats[n].out_degree], graph.nodes)
         = Len(added)
    /\ edge_count(graph) = Len(added)

\* C9 witness: a node with both incoming and outgoing edges after three calls
C9_Witness ==
    /\ Len(added) >= 3
    /\ \E n \in graph.nodes :
        /\ graph.stats[n].in_degree >= 1
        /\ graph.stats[n].out_degree >= 2


(***************************************************************************)
(* Specification SpecAnalyze: executions of analyze on one input buffer.   *)
(* Every execution may run in a process of its own, whose string-hash seed *)
(* fixes the iteration order of its sets.  The rows of the buffer are all  *)
(* valid, so parse_csv returns them as they stand.                         *)
(***************************************************************************)
\* future.result(timeout=15)
TIMEOUT_SECONDS == 15

\* the leaves of A and of B in the layered-shell scenario
LeavesOfA == <<"L1", "L2", "L3", "L4">>
LeavesOfB == <<"L5", "L6", "L7", "L8">>

\* the four edges hub-leaf, the first k of them leaving the hub
LeafPairs(hub, leaves, k) ==
    [i \in 1..Len(leaves) |->
        IF i <= k THEN <<hub, leaves[i]>> ELSE <<leaves[i], hub>>]

ChainPairs ==
    <<<<"A", "S1">>, <<"S1", "S2">>, <<"S2", "S3">>, <<"S3", "B">>>>

\* A -> S1 -> S2 -> S3 -> B with the leaf edges before or after the chain
ShellScenarios ==
    {TxnsOfPairs(IF chainFirst
                 THEN ChainPairs \o LeafPairs("A", LeavesOfA, ka)
                                 \o LeafPairs("B", LeavesOfB, kb)
                 ELSE LeafPairs("B", LeavesOfB, kb)
                          \o LeafPairs("A", LeavesOfA, ka) \o ChainPairs) :
        ka \in 0..Len(LeavesOfA),
        kb \in 0..Len(LeavesOfB),
        chainFirst \in BOOLEAN}

\* one triangle; two triangles; a triangle and a fan-in of ten senders
TrianglePairs == <<<<"A", "B">>, <<"B", "C">>, <<"C", "A">>>>
SecondTrianglePairs == <<<<"D", "E">>, <<"E", "F">>, <<"F", "D">>>>
FanInPairs ==
    [i \in 1..THRESHOLD |->
        <<<<"A", "B", "C", "D", "E", "F", "G", "L1", "L2", "L3">>[i], "H">>]

RingScenarios ==
    {TxnsOfPairs(TrianglePairs),
     TxnsOfPairs(TrianglePairs \o SecondTrianglePairs),
     TxnsOfPairs(SecondTrianglePairs \o TrianglePairs),
     TxnsOfPairs(FanInPairs),
     TxnsOfPairs(TrianglePairs \o FanInPairs)}

\* A sends to ten receivers
FanOutPairs ==
    [i \in 1..THRESHOLD |->
        <<"A", <<"D", "E", "F", "L1", "L2", "L3", "L4", "L5", "L6", "L7">>[i]>>]

\* a second triangle through A
SharedTrianglePairs == <<<<"A", "G">>, <<"G", "H">>, <<"H", "A">>>>

\* a path through S1, S2, S3 into an account of the other rings
ShellPathPairs(last) ==
    <<<<"L8", "S1">>, <<"S1", "S2">>, <<"S2", "S3">>, <<"S3", last>>>>

\* the path of nine accounts from AccountIds[first] on: six chains, of 3 to
\* 8 hops
LongPathPairs(first) ==
    [i \in 1..MAX_CHAIN_HOPS |->
        <<AccountIds[first + i - 1], AccountIds[first + i]>>]

\* rings of several families that share accounts; more than nine rings
OverlapScenarios ==
    {TxnsOfPairs(LongPathPairs(1) \o LongPathPairs(MAX_CHAIN_HOPS + 2)),
     TxnsOfPairs(FanOutPairs),
     TxnsOfPairs(TrianglePairs \o FanOutPairs),
     TxnsOfPairs(FanOutPairs \o TrianglePairs),
     TxnsOfPairs(TrianglePairs \o SharedTrianglePairs \o FanOutPairs),
     TxnsOfPairs(TrianglePairs \o FanOutPairs \o ShellPathPairs("D")),
     TxnsOfPairs(ShellPathPairs("B") \o FanOutPairs \o TrianglePairs)}

AnalyzeInputs == ShellScenarios \cup RingScenarios \cup OverlapScenarios

\* round(time.time() - start_time, 2) of an execution, in seconds
ProcessingTimes(expired) ==
    IF expired THEN {TIMEOUT_SECONDS} ELSE {0, 1}

AnalyzeInit ==
    /\ csv_content \in AnalyzeInputs
    /\ hash_seed = 1
    /\ apc = "idle"
    /\ an_graph = TransactionGraph
    /\ detected = EmptyDetectorOutputs
    /\ timed_out = FALSE
    /\ reports = <<>>
    /\ GraphIdle
    /\ ParseIdle
    /\ CycleIdle
    /\ TimeoutIdle
    /\ PairIdle
    /\ NormIdle
    /\ RunIdle
    /\ DetectorIdle

\* a call of analyze: steps 1 and 2
StartAnalyze ==
    /\ apc = "idle"
    /\ \E seed \in HashSeeds : hash_seed' = seed
    /\ an_graph' = build_graph(csv_content)
    /\ apc' = "detect"
    /\ UNCHANGED <<csv_content, detected, timed_out, reports>>
    /\ UNCHANGED otherThanAnalyze

\* step 3: future.result returns the three detector outputs
DetectorsReturn ==
    /\ apc = "detect"
    /\ detected' = run_detectors(an_graph, hash_seed)
    /\ timed_out' = FALSE
    /\ apc' = "aggregate"
    /\ UNCHANGED <<csv_content, hash_seed, an_graph, reports>>
    /\ UNCHANGED otherThanAnalyze

\* step 3: future.result raises TimeoutError
DetectorsTimeOut ==
    /\ apc = "detect"
    /\ detected' = EmptyDetectorOutputs
    /\ timed_out' = TRUE
    /\ apc' = "aggregate"
    /\ UNCHANGED <<csv_content, hash_seed, an_graph, reports>>
    /\ UNCHANGED otherThanAnalyze

\* steps 4 to 7: aggregate, score, format and return
ReturnReport ==
    /\ apc = "aggregate"
    /\ \E elapsed \in ProcessingTimes(timed_out) :
        reports' = Append(reports,
            [timed_out |-> timed_out,
             report |-> Report(csv_content, an_graph, detected, hash_seed,
                               elapsed)])
    /\ apc' = "returned"
    /\ UNCHANGED <<csv_content, hash_seed, an_graph, detected, timed_out>>
    /\ UNCHANGED otherThanAnalyze

AnalyzeNext ==
    \/ StartAnalyze
    \/ DetectorsReturn
    \/ DetectorsTimeOut
    \/ ReturnReport

SpecAnalyze == AnalyzeInit /\ [][AnalyzeNext]_vars

\* the report the last execution returned
LastReport == reports[Len(reports)].report

\* the graph is the layered-shell scenario: the chain A -> S1 -> S2 -> S3 -> B,
\* S1, S2, S3 of total degree 2, A and B of total degree 5, every other
\* account of total degree 1
IsLayeredShellScenario(g) ==
    /\ {"A", "S1", "S2", "S3", "B"} \subseteq g.nodes
    /\ \A i \in 1..Len(ChainPairs) : HasEdge(g, ChainPairs[i][1], ChainPairs[i][2])
    /\ \A n \in g.nodes :
        total_degree(g.stats[n]) =
            IF n \in {"S1", "S2", "S3"} THEN 2
            ELSE IF n \in {"A", "B"} THEN 5 ELSE 1

\* the report lists the account with the label among its detected_patterns
CarriesLabel(rep, account, label) ==
    \E i \in 1..Len(rep.suspicious_accounts) :
        /\ rep.suspicious_accounts[i].account_id = account
        /\ label \in Range(rep.suspicious_accounts[i].detected_patterns)

\* an execution on the layered-shell scenario returned, its detectors having
\* finished in time
ShellScenarioReported ==
    /\ apc = "returned"
    /\ ~timed_out
    /\ IsLayeredShellScenario(an_graph)

(* C4 as stated: for the layered-shell scenario the report contains        *)
(* exactly one fraud ring, of pattern_type layered_shell and members       *)
(* [A, S1, S2, S3, B], and S1, S2, S3 carry the shell_intermediary label.  *)
C4_OneShellRing ==
    ShellScenarioReported =>
        /\ Len(LastReport.fraud_rings) = 1
        /\ LastReport.fraud_rings[1].pattern_type = "layered_shell"
        /\ LastReport.fraud_rings[1].member_accounts = <<"A", "S1", "S2", "S3", "B">>
        /\ \A s \in {"S1", "S2", "S3"} : CarriesLabel(LastReport, s, "shell_intermediary")

(* C4 amended: for the layered-shell scenario the report contains exactly  *)
(* two fraud rings, both of pattern_type layered_shell: RING_001 with      *)
(* members [A, S1, S2, S3], the running path recorded on entering S3, and  *)
(* RING_002 with members [A, S1, S2, S3, B]; S1, S2, S3 carry the          *)
(* shell_intermediary label.                                               *)
C4_TwoShellRings ==
    ShellScenarioReported =>
        /\ Len(LastReport.fraud_rings) = 2
        /\ \A i \in 1..2 : LastReport.fraud_rings[i].pattern_type = "layered_shell"
        /\ LastReport.fraud_rings[1].ring_id = "RING_001"
        /\ LastReport.fraud_rings[1].member_accounts = <<"A", "S1", "S2", "S3">>
        /\ LastReport.fraud_rings[2].ring_id = "RING_002"
        /\ LastReport.fraud_rings[2].member_accounts = <<"A", "S1", "S2", "S3", "B">>
        /\ \A s \in {"S1", "S2", "S3"} : CarriesLabel(LastReport, s, "shell_intermediary")

\* C4 witness: a report on the layered-shell scenario, with leaf edges both
\* entering and leaving A, that holds the ring [A, S1, S2, S3, B]
C4_Witness ==
    /\ ShellScenarioReported
    /\ an_graph.stats["A"].out_degree > 1
    /\ an_graph.stats["A"].in_degree > 0
    /\ \E i \in 1..Len(LastReport.fraud_rings) :
        LastReport.fraud_rings[i].member_accounts = <<"A", "S1", "S2", "S3", "B">>

(***************************************************************************)
(* Specification SpecRuns: analyze executed again and again on the same    *)
(* input buffer                                                            *)
(***************************************************************************)
MaxRuns == 2

\* the layered-shell scenario with k leaf edges leaving A and leaving B
ShellScenario(k) ==
    TxnsOfPairs(ChainPairs \o LeafPairs("A", LeavesOfA, k)
                           \o LeafPairs("B", LeavesOfB, k))

RunsInputs == RingScenarios \cup {ShellScenario(0), ShellScenario(Len(LeavesOfA))}

RunsInit ==
    /\ AnalyzeInit
    /\ csv_content \in RunsInputs

\* the caller hands the same buffer to analyze once more
NextExecution ==
    /\ apc = "returned"
    /\ Len(reports) < MaxRuns
    /\ apc' = "idle"
    /\ UNCHANGED <<csv_content, hash_seed, an_graph, detected, timed_out, reports>>
    /\ UNCHANGED otherThanAnalyze

RunsNext ==
    \/ StartAnalyze
    \/ DetectorsReturn
    \/ DetectorsTimeOut
    \/ ReturnReport
    \/ NextExecution

SpecRuns == RunsInit /\ [][RunsNext]_vars

\* a report with summary.processing_time_seconds blanked
WithoutProcessingTime(rep) ==
    [rep EXCEPT !.summary.processing_time_seconds = 0]

(* C3: two executions of analyze on the same input buffer, neither of them *)
(* timing out, return reports that are identical in every field except     *)
(* summary.processing_time_seconds, whatever order the sets of each        *)
(* execution are iterated in.                                              *)
C3_RunsAgree ==
    \A i, j \in 1..Len(reports) :
        (~reports[i].timed_out /\ ~reports[j].timed_out) =>
            WithoutProcessingTime(reports[i].report)
                = WithoutProcessingTime(reports[j].report)


(***************************************************************************)
(* Specification SpecTimeout: step 3 of analyze, thread by thread.  The    *)
(* calling thread submits run_detectors to a ThreadPoolExecutor opened     *)
(* with "with", waits in future.result(timeout=15), and leaves the with    *)
(* block through the executor's __exit__, which is shutdown(wait=True):    *)
(* it joins the pool thread.  The clock counts seconds since the submit.   *)
(***************************************************************************)
MaxClock == 17

TimeoutInputs == {TxnsOfPairs(TrianglePairs), ShellScenario(0)}

TimeoutInit ==
    /\ AnalyzeInit
    /\ csv_content \in TimeoutInputs
    /\ main = "idle"
    /\ worker = [pc |-> "idle", out |-> EmptyDetectorOutputs]
    /\ clock = 0
    /\ future = [done |-> FALSE, result |-> EmptyDetectorOutputs]

\* steps 1 and 2, then "with ThreadPoolExecutor() as executor" and
\* executor.submit(run_detectors): the pool thread starts
Submit ==
    /\ main = "idle"
    /\ \E seed \in HashSeeds : hash_seed' = seed
    /\ an_graph' = build_graph(csv_content)
    /\ main' = "result"
    /\ worker' = [worker EXCEPT !.pc = "detect_cycles"]
    /\ UNCHANGED <<csv_content, apc, detected, timed_out, reports, clock, future>>
    /\ UNCHANGED otherThanTimeout

\* a second passes
Tick ==
    /\ main \in {"result", "exit"}
    /\ clock < MaxClock
    /\ clock' = clock + 1
    /\ UNCHANGED <<main, worker, future>>
    /\ UNCHANGED analyzeVars
    /\ UNCHANGED otherThanTimeout

\* the pool thread evaluates detect_cycles(graph)
RunCycles ==
    /\ worker.pc = "detect_cycles"
    /\ worker' = [pc |-> "detect_smurfing",
                  out |-> [worker.out EXCEPT
                              !.cycle_rings = detect_cycles(an_graph, hash_seed)]]
    /\ UNCHANGED <<main, clock, future>>
    /\ UNCHANGED analyzeVars
    /\ UNCHANGED otherThanTimeout

\* the pool thread evaluates detect_smurfing(graph)
RunSmurfing ==
    /\ worker.pc = "detect_smurfing"
    /\ worker' = [pc |-> "detect_shell_networks",
                  out |-> [worker.out EXCEPT
                              !.smurfing_rings = detect_smurfing(an_graph, hash_seed)]]
    /\ UNCHANGED <<main, clock, future>>
    /\ UNCHANGED analyzeVars
    /\ UNCHANGED otherThanTimeout

\* the pool thread evaluates detect_shell_networks(graph); run_detectors
\* returns and the future is set
RunShells ==
    /\ worker.pc = "detect_shell_networks"
    /\ LET out == [worker.out EXCEPT
                      !.shell_chains = detect_shell_networks(an_graph, hash_seed)]
       IN  /\ worker' = [pc |-> "done", out |-> out]
           /\ future' = [done |-> TRUE, result |-> out]
    /\ UNCHANGED <<main, clock>>
    /\ UNCHANGED analyzeVars
    /\ UNCHANGED otherThanTimeout

\* future.result(timeout=15) returns the result
ResultReturns ==
    /\ main = "result"
    /\ future.done
    /\ detected' = future.result
    /\ timed_out' = FALSE
    /\ main' = "exit"
    /\ UNCHANGED <<csv_content, hash_seed, apc, an_graph, reports>>
    /\ UNCHANGED <<worker, clock, future>>
    /\ UNCHANGED otherThanTimeout

\* future.result(timeout=15) raises TimeoutError; the exception leaves the
\* with block
ResultTimesOut ==
    /\ main = "result"
    /\ ~future.done
    /\ clock >= TIMEOUT_SECONDS
    /\ timed_out' = TRUE
    /\ main' = "exit"
    /\ UNCHANGED <<csv_content, hash_seed, apc, an_graph, detected, reports>>
    /\ UNCHANGED <<worker, clock, future>>
    /\ UNCHANGED otherThanTimeout

\* the executor's exit with the except clause passing on what the pool thread
\* has produced instead of the empty outputs
ExecutorExitKeepingOutputs ==
    /\ main = "exit"
    /\ worker.pc = "done"
    /\ detected' = IF timed_out THEN worker.out ELSE detected
    /\ main' = "aggregate"
    /\ UNCHANGED <<csv_content, hash_seed, apc, an_graph, timed_out, reports>>
    /\ UNCHANGED <<worker, clock, future>>
    /\ UNCHANGED otherThanTimeout

\* the executor's __exit__, shutdown(wait=True), returns once the pool thread
\* has ended; after a TimeoutError the except clause empties the outputs
ExecutorExit ==
    /\ main = "exit"
    /\ worker.pc = "done"
    /\ detected' = IF timed_out THEN EmptyDetectorOutputs ELSE detected
    /\ main' = "aggregate"
    /\ UNCHANGED <<csv_content, hash_seed, apc, an_graph, timed_out, reports>>
    /\ UNCHANGED <<worker, clock, future>>
    /\ UNCHANGED otherThanTimeout

\* steps 4 to 7; processing_time_seconds is the time on the clock
AggregateAndReturn ==
    /\ main = "aggregate"
    /\ reports' = Append(reports,
            [timed_out |-> timed_out,
             report |-> Report(csv_content, an_graph, detected, hash_seed, clock)])
    /\ main' = "returned"
    /\ UNCHANGED <<csv_content, hash_seed, apc, an_graph, detected, timed_out>>
    /\ UNCHANGED <<worker, clock, future>>
    /\ UNCHANGED otherThanTimeout

TimeoutNext ==
    \/ Submit
    \/ Tick
    \/ RunCycles
    \/ RunSmurfing
    \/ RunShells
    \/ ResultReturns
    \/ ResultTimesOut
    \/ ExecutorExit
    \/ AggregateAndReturn

SpecTimeout == TimeoutInit /\ [][TimeoutNext]_vars

(* C2: when the timeout has expired while the detector task is still       *)
(* running, analyze goes on to aggregation with empty outputs without      *)
(* waiting for the task: after expiry the calling thread is never blocked  *)
(* on the detector task.                                                   *)
C2_NotBlockedAfterExpiry ==
    (timed_out /\ main = "exit") => ENABLED ExecutorExit

(***************************************************************************)
(* detect_smurfing on one hub: counterparties arriving at the edge of the  *)
(* 72-hour window, repeated counterparties, both directions                *)
(***************************************************************************)

MaxPartners == 11

Partners == <<"A", "B", "C", "D", "E", "F", "G", "L1", "L2", "L3", "L4", "L5", "L6">>

PartnerCounts == (THRESHOLD - 1)..MaxPartners

\* the spacing at which THRESHOLD edges span exactly the window
Gap == Window \div (THRESHOLD - 1)

\* the first k edges at minute 0 and the others at minute t
TwoGroupTimes(n, k, t) == [i \in 1..n |-> IF i <= k THEN 0 ELSE t]

\* the edges step minutes apart
EvenTimes(n, step) == [i \in 1..n |-> step * (i - 1)]

EvenLayouts(n) == {EvenTimes(n, step) : step \in {Gap, Gap + 1}}

TimeLayouts(n) ==
    {TwoGroupTimes(n, k, t) : k \in 0..n, t \in {Window, Window + 1}}
        \cup EvenLayouts(n)

\* one edge per counterparty between it and hub H, as <<sender, receiver, minute>>
FanEdges(times, pattern) ==
    [i \in 1..Len(times) |->
        IF pattern = "fan_in" THEN <<Partners[i], "H", times[i]>>
        ELSE <<"H", Partners[i], times[i]>>]

\* a second edge of the first counterparty: none, one at the end of the
\* window, one long after it
RepeatEdges(pattern) ==
    {<<>>} \cup {FanEdges(<<t>>, pattern) : t \in {Window, 2 * Window + 2}}

Reverse(s) == [i \in 1..Len(s) |-> s[Len(s) + 1 - i]]

TxnsOfEdges(edges) ==
    [i \in 1..Len(edges) |->
        Transaction(TxnIds[i], edges[i][1], edges[i][2], Num(100), edges[i][3])]

OneWayInputs ==
    {TxnsOfEdges(es) :
        es \in UNION {{FanEdges(times, pattern) \o rep,
                       Reverse(FanEdges(times, pattern) \o rep)} :
                          times \in UNION {TimeLayouts(n) : n \in PartnerCounts},
                          pattern \in {"fan_in", "fan_out"},
                          rep \in RepeatEdges("fan_in") \cup RepeatEdges("fan_out")}}

\* hub H receiving from and sending to the same counterparties
BothWayInputs ==
    {TxnsOfEdges(FanEdges(t_in, "fan_in") \o FanEdges(t_out, "fan_out")) :
        t_in \in UNION {EvenLayouts(n) : n \in PartnerCounts},
        t_out \in UNION {EvenLayouts(n) : n \in PartnerCounts}}

SmurfingInputs == OneWayInputs \cup BothWayInputs

SmurfingInit ==
    /\ \E txns \in SmurfingInputs :
        /\ added = txns
        /\ graph = build_graph(txns)
    /\ dpc = "smurfing"
    /\ smurfing_rings = <<>>
    /\ shell_chains = <<>>
    /\ ParseIdle
    /\ CycleIdle
    /\ AnalyzeIdle
    /\ TimeoutIdle
    /\ PairIdle
    /\ NormIdle
    /\ RunIdle

\* the call detect_smurfing(graph), under the hash seed of the process
DetectSmurfing ==
    /\ dpc = "smurfing"
    /\ \E seed \in HashSeeds : smurfing_rings' = detect_smurfing(graph, seed)
    /\ dpc' = "returned"
    /\ UNCHANGED <<shell_chains, graphVars, otherThanDetector>>

SmurfingNext == DetectSmurfing

SpecSmurfing == SmurfingInit /\ [][SmurfingNext]_vars

\* the transactions of the input that are edges of node in the direction of
\* pattern, by their position in the input
EdgesOf(node, pattern) ==
    {i \in 1..Len(added) :
        IF pattern = "fan_in" THEN added[i].receiver_id = node
        ELSE added[i].sender_id = node}

\* the other endpoint of the i-th transaction
Counterparty(i, pattern) ==
    IF pattern = "fan_in" THEN added[i].sender_id ELSE added[i].receiver_id

\* the counterparties of node's edges with timestamps in [t, t + 72 hours]
WithinSpan(node, pattern, t) ==
    {Counterparty(i, pattern) :
        i \in {j \in EdgesOf(node, pattern) :
                  /\ t <= added[j].timestamp
                  /\ added[j].timestamp <= t + 72 * 60}}

\* some set of node's edges spanning at most 72 hours touches at least 10
\* distinct counterparties
Flaggable(node, pattern) ==
    \E i \in EdgesOf(node, pattern) :
        Cardinality(WithinSpan(node, pattern, added[i].timestamp)) >= 10

RingsFor(node, pattern) ==
    {i \in 1..Len(smurfing_rings) :
        /\ smurfing_rings[i].hub_account = node
        /\ smurfing_rings[i].pattern = pattern}

(* C13: for every node and each direction, detect_smurfing returns exactly *)
(* one SmurfingRing with that hub and pattern when some set of the node's  *)
(* edges in that direction spanning at most 72 hours (exactly 72 hours     *)
(* included) touches at least 10 distinct counterparties, and none         *)
(* otherwise; repeated edges of one counterparty count once.               *)
C13_OneRingIffTenWithinWindow ==
    dpc = "returned" =>
        \A node \in graph.nodes : \A pattern \in {"fan_in", "fan_out"} :
            Cardinality(RingsFor(node, pattern)) =
                IF Flaggable(node, pattern) THEN 1 ELSE 0

\* ten counterparties whose edges span exactly 72 hours, flagged
C13_Witness ==
    /\ dpc = "returned"
    /\ Len(added) = 10
    /\ {added[i].timestamp : i \in 1..Len(added)} = {0, 72 * 60}
    /\ Cardinality(RingsFor("H", "fan_in")) = 1

\* a hub flagged in both directions
C13_WitnessBothDirections ==
    /\ dpc = "returned"
    /\ RingsFor("H", "fan_in") # {}
    /\ RingsFor("H", "fan_out") # {}

\* nine counterparties, one of them with two edges: ten edges, not flagged
C13_WitnessNine ==
    /\ dpc = "returned"
    /\ Len(added) = 10
    /\ \A i \in 1..Len(added) : added[i].timestamp \in {0, 72 * 60}
    /\ Cardinality({added[i].sender_id : i \in 1..Len(added)}) = 9
    /\ smurfing_rings = <<>>

\* the hub's edges in the ring's direction with timestamps in [lo, hi]
CounterpartiesIn(ring, lo, hi) ==
    {Counterparty(j, ring.pattern) :
        j \in {k \in EdgesOf(ring.hub_account, ring.pattern) :
                  /\ lo <= added[k].timestamp
                  /\ added[k].timestamp <= hi}}

HubTimestamps(ring) ==
    {added[j].timestamp : j \in EdgesOf(ring.hub_account, ring.pattern)}

(* C14: every SmurfingRing returned has at least 10 distinct               *)
(* counterparties; some interval of at most 72 hours holds exactly the     *)
(* hub's edges, in the ring's direction, whose other endpoints are the     *)
(* counterparties; the hub is not a counterparty; members is the hub       *)
(* followed by the counterparties, no account repeated.                    *)
C14_SmurfingRingsWellFormed ==
    dpc = "returned" =>
        \A i \in 1..Len(smurfing_rings) :
            LET ring == smurfing_rings[i]
                cps == Range(ring.counterparties)
            IN  /\ Cardinality(cps) >= 10
                /\ \E lo \in HubTimestamps(ring) : \E hi \in HubTimestamps(ring) :
                    /\ lo <= hi
                    /\ hi - lo <= 72 * 60
                    /\ cps = CounterpartiesIn(ring, lo, hi)
                /\ ring.hub_account \notin cps
                /\ ring.members = <<ring.hub_account>> \o ring.counterparties
                /\ Cardinality(Range(ring.members)) = Len(ring.members)

\* a ring that leaves out a counterparty of the hub lying outside the window
C14_Witness ==
    /\ dpc = "returned"
    /\ Len(smurfing_rings) = 1
    /\ LET ring == smurfing_rings[1]
       IN  /\ Len(ring.counterparties) = 10
           /\ Cardinality({Counterparty(j, ring.pattern) :
                  j \in EdgesOf(ring.hub_account, ring.pattern)}) = 11

(***************************************************************************)
(* detect_shell_networks on a path of accounts with extra edges            *)
(***************************************************************************)

MaxChainNodes == 5
MaxExtraEdges == 2
MaxPathNodes == 10

\* the path AccountIds[1] -> AccountIds[2] -> ... -> AccountIds[k]
PathPairs(k) == [i \in 1..(k - 1) |-> <<AccountIds[i], AccountIds[i + 1]>>]

\* the n-th of the k * k ordered pairs of the first k accounts
PairAt(k, n) == <<AccountIds[((n - 1) \div k) + 1], AccountIds[((n - 1) % k) + 1]>>

\* the edges between two different accounts of the first k, by their number
PairIndexes(k) == {n \in 1..(k * k) : PairAt(k, n)[1] # PairAt(k, n)[2]}

\* the lists of at most n numbers of S in non-decreasing order (a number may
\* be repeated: parallel edges)
RECURSIVE IndexLists(_, _)
IndexLists(S, n) ==
    IF n = 0 THEN {<<>>}
    ELSE LET shorter == IndexLists(S, n - 1)
         IN  shorter \cup
             UNION {{Append(l, e) : e \in {x \in S : l = <<>> \/ l[Len(l)] <= x}} :
                        l \in {x \in shorter : Len(x) = n - 1}}

ExtraEdges(k, l) == [i \in 1..Len(l) |-> PairAt(k, l[i])]

\* A -> B -> C -> D with B and C of degree 2 and, by three more transactions
\* between A and D, both ends of degree 4
BusyEndsPairs ==
    PathPairs(4) \o <<<<"A", "D">>, <<"A", "D">>, <<"D", "A">>>>

\* the paths of up to longest accounts, and the paths of up to nodes accounts
\* with up to extra more edges between them
ShellInputs(longest, nodes, extra) ==
    {TxnsOfPairs(PathPairs(k)) : k \in 4..longest}
        \cup {TxnsOfPairs(BusyEndsPairs)}
        \cup UNION {{TxnsOfPairs(PathPairs(k) \o ExtraEdges(k, l)) :
                        l \in IndexLists(PairIndexes(k), extra)} :
                            k \in 4..nodes}

ShellsInit ==
    /\ \E txns \in ShellInputs(MaxPathNodes, MaxChainNodes, MaxExtraEdges) :
        /\ added = txns
        /\ graph = build_graph(txns)
    /\ dpc = "shells"
    /\ smurfing_rings = <<>>
    /\ shell_chains = <<>>
    /\ ParseIdle
    /\ CycleIdle
    /\ AnalyzeIdle
    /\ TimeoutIdle
    /\ PairIdle
    /\ NormIdle
    /\ RunIdle

\* the call detect_shell_networks(graph), under the hash seed of the process
DetectShells ==
    /\ dpc = "shells"
    /\ \E seed \in HashSeeds : shell_chains' = detect_shell_networks(graph, seed)
    /\ dpc' = "returned"
    /\ UNCHANGED <<smurfing_rings, graphVars, otherThanDetector>>

ShellsNext == DetectShells

SpecShells == ShellsInit /\ [][ShellsNext]_vars

\* the number of input transactions the account sends or receives
DegreeInInput(account) ==
    Cardinality({i \in 1..Len(added) : added[i].sender_id = account})
        + Cardinality({i \in 1..Len(added) : added[i].receiver_id = account})

ShellDegree(account) == DegreeInInput(account) \in {2, 3}

(* C15: every ShellChain returned by detect_shell_networks has at least 4  *)
(* members, pairwise distinct; every member other than the first and the   *)
(* last has total degree 2 or 3; every consecutive pair of members is a    *)
(* forward edge of the graph.                                              *)
C15_ShellChainsWellFormed ==
    dpc = "returned" =>
        \A i \in 1..Len(shell_chains) :
            LET members == shell_chains[i].members
            IN  /\ Len(members) >= 4
                /\ Cardinality(Range(members)) = Len(members)
                /\ \A j \in 2..(Len(members) - 1) : ShellDegree(members[j])
                /\ \A j \in 1..(Len(members) - 1) :
                    \E t \in 1..Len(added) :
                        /\ added[t].sender_id = members[j]
                        /\ added[t].receiver_id = members[j + 1]

\* a chain through three shells to a busy endpoint, and a chain of another
\* origin that ends at a shell
C15_Witness ==
    /\ dpc = "returned"
    /\ \E i \in 1..Len(shell_chains) :
        /\ Len(shell_chains[i].members) = 5
        /\ ~ShellDegree(shell_chains[i].members[5])
    /\ \E i \in 1..Len(shell_chains) :
        ShellDegree(shell_chains[i].members[Len(shell_chains[i].members)])

\* the chain's members from the second to the n-th
MembersUpTo(chain, n) == SubSeq(chain.members, 2, n)

ThreeDigits(i) ==
    ToString(i \div 100) \o ToString((i \div 10) % 10) \o ToString(i % 10)

\* the members of the rings and chains the detectors returned: cycles, then
\* smurfing rings, then shell chains
DetectedMembers ==
    [i \in 1..Len(detected.cycle_rings) |->
        <<"cycle", detected.cycle_rings[i].members>>]
    \o [i \in 1..Len(detected.smurfing_rings) |->
        <<"smurfing", detected.smurfing_rings[i].members>>]
    \o [i \in 1..Len(detected.shell_chains) |->
        <<"layered_shell", detected.shell_chains[i].members>>]

(* C17: the i-th entry of fraud_rings has ring_id "RING_" followed by i    *)
(* zero-padded to 3 digits; the ring IDs are pairwise distinct; the cycle  *)
(* rings come first, then the smurfing rings, then the layered_shell       *)
(* rings, each group in the order its detector returned it.                *)
C17_RingIdsCountTheRings ==
    apc = "returned" =>
        LET fraud_rings == LastReport.fraud_rings
        IN  /\ \A i \in 1..Len(fraud_rings) :
                fraud_rings[i].ring_id = "RING_" \o ThreeDigits(i)
            /\ \A i \in 1..Len(fraud_rings) : \A j \in 1..Len(fraud_rings) :
                i # j => fraud_rings[i].ring_id # fraud_rings[j].ring_id
            /\ Len(fraud_rings) = Len(DetectedMembers)
            /\ \A i \in 1..Len(fraud_rings) :
                /\ fraud_rings[i].pattern_type = DetectedMembers[i][1]
                /\ fraud_rings[i].member_accounts = DetectedMembers[i][2]

\* a report with rings of the three families
C17_Witness ==
    /\ apc = "returned"
    /\ {LastReport.fraud_rings[i].pattern_type :
            i \in 1..Len(LastReport.fraud_rings)}
          = {"cycle", "smurfing", "layered_shell"}

\* a report with more than nine rings
C17_WitnessTenRings ==
    /\ apc = "returned"
    /\ Len(LastReport.fraud_rings) >= 10

\* the positions in fraud_rings of the rings that contain the account
RingsContaining(rep, account) ==
    {i \in 1..Len(rep.fraud_rings) :
        account \in Range(rep.fraud_rings[i].member_accounts)}

Greatest(S) == CHOOSE x \in S : \A y \in S : y <= x

(* C18: for every account in suspicious_accounts, the reported ring_id is  *)
(* the ID of the last ring in fraud_rings whose member_accounts contains   *)
(* the account.                                                            *)
C18_RingIdOfLastRing ==
    apc = "returned" =>
        \A i \in 1..Len(LastReport.suspicious_accounts) :
            LET account == LastReport.suspicious_accounts[i]
                containing == RingsContaining(LastReport, account.account_id)
            IN  /\ containing # {}
                /\ account.ring_id =
                      LastReport.fraud_rings[Greatest(containing)].ring_id

\* an account of three rings, the last of which is not the last ring of the
\* report
C18_Witness ==
    /\ apc = "returned"
    /\ \E i \in 1..Len(LastReport.suspicious_accounts) :
        LET containing ==
                RingsContaining(LastReport,
                                LastReport.suspicious_accounts[i].account_id)
        IN  /\ Cardinality(containing) >= 3
            /\ Greatest(containing) < Len(LastReport.fraud_rings)

\* the pattern families of the rings that contain the account
FamiliesOf(rep, account) ==
    {rep.fraud_rings[i].pattern_type : i \in RingsContaining(rep, account)}

\* the score the formula gives, in tenths: the base scores 40, 30, 30 of the
\* families summed, times 1 + 0.15 (k - 1), plus 15 for more than one
\* family, at most 100 (the sum of base scores is a multiple of 10, so the
\* product has one decimal and rounding changes nothing)
FormulaScore(families, k) ==
    LET base == (IF "cycle" \in families THEN 40 ELSE 0)
                  + (IF "smurfing" \in families THEN 30 ELSE 0)
                  + (IF "layered_shell" \in families THEN 30 ELSE 0)
        scaled == (base * (100 + 15 * (k - 1))) \div 10
        total == scaled + (IF Cardinality(families) > 1 THEN 150 ELSE 0)
    IN  IF total > 1000 THEN 1000 ELSE total

ScoreInReport(rep, account) ==
    LET i == CHOOSE j \in 1..Len(rep.suspicious_accounts) :
                rep.suspicious_accounts[j].account_id = account
    IN  rep.suspicious_accounts[i].suspicion_score

TimelyReportOn(txns) ==
    /\ apc = "returned"
    /\ ~timed_out
    /\ csv_content = txns

(* C19: each suspicious account's suspicion_score is min(100, the sum of   *)
(* the base scores of its pattern families (cycle 40, smurfing 30,         *)
(* layered_shell 30) x (1 + 0.15 x (k - 1)) + 15 if it has more than one   *)
(* family), k being the number of rings of fraud_rings that contain it;    *)
(* the score is within [0, 100]; for the triangle plus a 10-receiver       *)
(* fan-out from A, A has k = 2 and score 95.5; for a lone triangle each    *)
(* member scores 40.0.                                                     *)
C19_SuspicionScoreFormula ==
    /\ apc = "returned" =>
        \A i \in 1..Len(LastReport.suspicious_accounts) :
            LET account == LastReport.suspicious_accounts[i]
                containing == RingsContaining(LastReport, account.account_id)
            IN  /\ account.suspicion_score =
                      FormulaScore(FamiliesOf(LastReport, account.account_id),
                                   Cardinality(containing))
                /\ 0 <= account.suspicion_score
                /\ account.suspicion_score <= 1000
    /\ TimelyReportOn(TxnsOfPairs(TrianglePairs \o FanOutPairs)) =>
        /\ Cardinality(RingsContaining(LastReport, "A")) = 2
        /\ ScoreInReport(LastReport, "A") = 955
    /\ TimelyReportOn(TxnsOfPairs(TrianglePairs)) =>
        /\ Len(LastReport.suspicious_accounts) = 3
        /\ \A a \in {"A", "B", "C"} : ScoreInReport(LastReport, a) = 400

\* the report on the triangle plus the fan-out from A, and in it an account
\* whose score is capped at 100
C19_Witness ==
    /\ TimelyReportOn(TxnsOfPairs(TrianglePairs \o SharedTrianglePairs \o FanOutPairs))
    /\ ScoreInReport(LastReport, "A") = 1000
    /\ ScoreInReport(LastReport, "B") = 955

C19_WitnessScenario ==
    /\ TimelyReportOn(TxnsOfPairs(TrianglePairs \o FanOutPairs))
    /\ ScoreInReport(LastReport, "A") = 955

\* the members' suspicion scores of a ring, those of members not listed
\* counting 0
MemberScores(rep, ring) ==
    [j \in 1..Len(ring.member_accounts) |->
        IF \E i \in 1..Len(rep.suspicious_accounts) :
              rep.suspicious_accounts[i].account_id = ring.member_accounts[j]
        THEN ScoreInReport(rep, ring.member_accounts[j])
        ELSE 0]

SeverityTenths(pattern_type) ==
    IF pattern_type = "cycle" THEN 12
    ELSE IF pattern_type = "layered_shell" THEN 11
    ELSE 10

\* r, in tenths, is the mean of the scores times the severity rounded to one
\* decimal: no tenth is nearer to the product
IsRoundedProduct(r, scores, severity) ==
    LET twice == 2 * SumSeq(scores) * severity
        den == 10 * Len(scores)
    IN  /\ 2 * r * den - twice <= den
        /\ twice - 2 * r * den <= den

(* C20: each ring's risk_score is min(100, the mean of its members'        *)
(* suspicion scores x severity rounded to one decimal), severity 1.2 for   *)
(* cycle, 1.0 for smurfing, 1.1 for layered_shell; a ring with no member   *)
(* scores gets 0; the result is within [0, 100]; a lone triangle ring gets *)
(* 48.0 and a lone 10-receiver fan-out ring gets 30.0.                     *)
C20_RiskScoreFormula ==
    /\ apc = "returned" =>
        \A i \in 1..Len(LastReport.fraud_rings) :
            LET ring == LastReport.fraud_rings[i]
                scores == MemberScores(LastReport, ring)
            IN  /\ scores = <<>> => ring.risk_score = 0
                /\ scores # <<>> =>
                    \E r \in 0..1200 :
                        /\ IsRoundedProduct(r, scores,
                                            SeverityTenths(ring.pattern_type))
                        /\ ring.risk_score = IF r > 1000 THEN 1000 ELSE r
                /\ 0 <= ring.risk_score
                /\ ring.risk_score <= 1000
    /\ TimelyReportOn(TxnsOfPairs(TrianglePairs)) =>
        /\ Len(LastReport.fraud_rings) = 1
        /\ LastReport.fraud_rings[1].risk_score = 480
    /\ TimelyReportOn(TxnsOfPairs(FanOutPairs)) =>
        /\ Len(LastReport.fraud_rings) = 1
        /\ LastReport.fraud_rings[1].risk_score = 300

\* a report with a ring capped at 100 and a ring whose product, 47.85, lies
\* half-way between two tenths
C20_Witness ==
    /\ TimelyReportOn(TxnsOfPairs(ShellPathPairs("B") \o FanOutPairs \o TrianglePairs))
    /\ LastReport.fraud_rings[1].risk_score = 1000
    /\ LastReport.fraud_rings[3].risk_score = 479

C20_WitnessFanOut ==
    /\ TimelyReportOn(TxnsOfPairs(FanOutPairs))
    /\ LastReport.fraud_rings[1].risk_score = 300

(***************************************************************************)
(* analyze on an input and on the same input with a copy of an accepted    *)
(* row at a later position                                                 *)
(***************************************************************************)

MaxPairRows == 2

\* analyze on one buffer: what parse_csv returned, the graph built and the
\* report, or the exception raised; expired says whether the detector
\* timeout fired
\* the rest of analyze once build_graph has returned g
AnalyzeBuilt(txns, g, seed, expired, elapsed) ==
    [raised |-> "", transactions |-> txns,
     built |-> g, seed |-> seed, timed_out |-> expired,
     report |-> <<Report(txns, g,
                         IF expired THEN EmptyDetectorOutputs
                         ELSE run_detectors(g, seed),
                         seed, elapsed)>>]

\* the rest of analyze once parse_csv has returned or raised p
AnalyzeParsed(p, seed, expired, elapsed) ==
    IF p.raised # ""
    THEN [raised |-> p.raised, transactions |-> <<>>,
          built |-> TransactionGraph, seed |-> seed, timed_out |-> FALSE,
          report |-> <<>>]
    ELSE AnalyzeBuilt(p.transactions, build_graph(p.transactions), seed,
                      expired, elapsed)

AnalyzeCall(fieldnames, data, seed, expired, elapsed) ==
    AnalyzeParsed(parse_csv(fieldnames, data), seed, expired, elapsed)

\* data rows of pairwise different ids for the edges given
RowsOfPairs(pairs) ==
    [i \in 1..Len(pairs) |-> <<TxnIds[i], pairs[i][1], pairs[i][2], "100", TS1>>]

\* the lists of 1 to n rows of S
RECURSIVE RowLists(_, _)
RowLists(S, n) ==
    IF n = 0 THEN {}
    ELSE {<<r>> : r \in S}
            \cup {Append(l, r) : l \in RowLists(S, n - 1), r \in S}

\* rows of ParseRows: accepted ones, one repeating an id in other words, a
\* self-loop, a row with a non-finite amount and an empty row
PairRows ==
    {<<"T1", "A", "B", "100", TS1>>,
     <<"T2", "B", "A", "250", TS2>>,
     <<" T1 ", "B", "A", " 100", TS1>>,
     <<"T1", "A", "A", "100", TS1>>,
     <<"T2", "A", "B", "inf", TS1>>,
     <<>>}

PairOriginals ==
    RowLists(PairRows, MaxPairRows)
        \cup {RowsOfPairs(SecondTrianglePairs)}

PairHeaders == {StdHeader}

\* data with row as its j-th row, the rows from the j-th on moved down
InsertAt(data, j, row) ==
    SubSeq(data, 1, j - 1) \o <<row>> \o SubSeq(data, j, Len(data))

\* the inputs with a copy of their i-th row, an accepted one, as j-th row,
\* below the i-th
PairsOf(fieldnames, data) ==
    LET flags == parse_csv(fieldnames, data).accepted_at
    IN  UNION {{[fieldnames |-> fieldnames, original |-> data,
                 with_copy |-> InsertAt(data, j, data[i])] :
                    j \in (i + 1)..(Len(data) + 1)} :
                        i \in {k \in 1..Len(flags) : flags[k]}}

PairInputs ==
    UNION {PairsOf(fieldnames, data) :
              fieldnames \in PairHeaders, data \in PairOriginals}

PairInit ==
    /\ csv_pair \in PairInputs
    /\ pair_runs = [original |-> <<>>, with_copy |-> <<>>]
    /\ GraphIdle
    /\ ParseIdle
    /\ CycleIdle
    /\ AnalyzeIdle
    /\ TimeoutIdle
    /\ DetectorIdle
    /\ NormIdle
    /\ RunIdle

\* a call of analyze on the original input
AnalyzeOriginal ==
    /\ pair_runs.original = <<>>
    /\ \E seed \in HashSeeds : \E expired \in BOOLEAN :
       \E elapsed \in ProcessingTimes(expired) :
        pair_runs' = [pair_runs EXCEPT !.original =
            <<AnalyzeCall(csv_pair.fieldnames, csv_pair.original, seed,
                          expired, elapsed)>>]
    /\ UNCHANGED <<csv_pair, otherThanPair>>

\* a call of analyze on the input with the copy
AnalyzeWithCopy ==
    /\ pair_runs.with_copy = <<>>
    /\ \E seed \in HashSeeds : \E expired \in BOOLEAN :
       \E elapsed \in ProcessingTimes(expired) :
        pair_runs' = [pair_runs EXCEPT !.with_copy =
            <<AnalyzeCall(csv_pair.fieldnames, csv_pair.with_copy, seed,
                          expired, elapsed)>>]
    /\ UNCHANGED <<csv_pair, otherThanPair>>

PairNext == AnalyzeOriginal \/ AnalyzeWithCopy

SpecPair == PairInit /\ [][PairNext]_vars

BothReturned == pair_runs.original # <<>> /\ pair_runs.with_copy # <<>>

OriginalRun == pair_runs.original[1]
CopyRun == pair_runs.with_copy[1]

\* the report of a run, processing_time_seconds blanked; <<>> when analyze
\* raised
ReportOf(run) ==
    IF run.report = <<>> THEN <<>>
    ELSE <<WithoutProcessingTime(run.report[1])>>

(* C21: adding to an input a copy of an already accepted row, at any later *)
(* position, changes nothing: parse_csv returns the same transaction list, *)
(* build_graph the same graph, and analyze (the detectors finishing in     *)
(* time in both calls) the same report in every field except               *)
(* processing_time_seconds.                                                *)
C21_CopyOfAcceptedRowChangesNothing ==
    (BothReturned /\ ~OriginalRun.timed_out /\ ~CopyRun.timed_out) =>
        /\ CopyRun.raised = OriginalRun.raised
        /\ CopyRun.transactions = OriginalRun.transactions
        /\ CopyRun.built = OriginalRun.built
        /\ ReportOf(CopyRun) = ReportOf(OriginalRun)

\* the part of C21 that does not depend on the order sets are iterated in:
\* the same exception or transaction list and the same graph, and the same
\* report when both calls run under the same string-hash seed
C21_SameUnderOneSeed ==
    BothReturned =>
        /\ CopyRun.raised = OriginalRun.raised
        /\ CopyRun.transactions = OriginalRun.transactions
        /\ CopyRun.built = OriginalRun.built
        /\ (CopyRun.seed = OriginalRun.seed
                /\ CopyRun.timed_out = OriginalRun.timed_out)
            => ReportOf(CopyRun) = ReportOf(OriginalRun)

\* both calls returned a report with a ring, the copy being read before the
\* last row of the input
C21_Reached ==
    /\ BothReturned
    /\ OriginalRun.report # <<>>
    /\ CopyRun.report # <<>>
    /\ CopyRun.report[1].fraud_rings # <<>>
    /\ csv_pair.with_copy[Len(csv_pair.with_copy)]
          # csv_pair.with_copy[Len(csv_pair.with_copy) - 1]


\* ---------------------------------------------------------------------------
\* The report after a detector timeout (SpecTimeout)

NodesOfReport(report) ==
    {report.graph.nodes[i].id : i \in 1..Len(report.graph.nodes)}

EmptyCompleteReport(report, g) ==
    /\ report.suspicious_accounts = <<>>
    /\ report.fraud_rings = <<>>
    /\ report.graph.rings = <<>>
    /\ \A i \in 1..Len(report.graph.nodes) :
            /\ ~report.graph.nodes[i].suspicious
            /\ report.graph.nodes[i].riskScore = 0
    /\ NodesOfReport(report) = g.nodes
    /\ Len(report.graph.nodes) = Cardinality(g.nodes)
    /\ report.summary.total_accounts_analyzed = Cardinality(g.nodes)
    /\ report.summary.suspicious_accounts_flagged = 0
    /\ report.summary.fraud_rings_detected = 0

\* C22: when future.result times out, the aggregation works on three empty
\* detector outputs, never on the output of one detector next to the empty
\* output of another, and the report analyze returns has no suspicious
\* account and no ring, lists every node of the graph as not suspicious with
\* riskScore 0, and counts all the nodes in total_accounts_analyzed
C22_TimeoutEmptiesAllOutputs ==
    /\ (timed_out /\ main \in {"aggregate", "returned"})
            => detected = EmptyDetectorOutputs
    /\ \A i \in 1..Len(reports) :
            reports[i].timed_out
                => EmptyCompleteReport(reports[i].report, an_graph)

\* a report returned after a timeout although the pool thread had found rings
C22_Witness ==
    /\ main = "returned"
    /\ timed_out
    /\ Len(reports) = 1
    /\ reports[1].timed_out
    /\ worker.out # EmptyDetectorOutputs
    /\ an_graph.nodes # {}

\* the timeout fires while the pool thread has finished one detector only
C22_WitnessPartial ==
    /\ main = "exit"
    /\ timed_out
    /\ worker.pc = "detect_smurfing"
    /\ worker.out.cycle_rings # <<>>


\* ---------------------------------------------------------------------------
\* The counts of the summary and the edges of the snapshot (SpecAnalyze)

EdgeOfTransaction(t) ==
    [id |-> t.transaction_id, source |-> t.sender_id, target |-> t.receiver_id]

EdgesInReport(report) ==
    {[id |-> report.graph.edges[i].id,
      source |-> report.graph.edges[i].source,
      target |-> report.graph.edges[i].target] : i \in 1..Len(report.graph.edges)}

SummaryAgrees(report, txns, g) ==
    /\ report.summary.total_accounts_analyzed = Cardinality(g.nodes)
    /\ report.summary.total_accounts_analyzed = Len(report.graph.nodes)
    /\ report.summary.fraud_rings_detected = Len(report.fraud_rings)
    /\ report.summary.suspicious_accounts_flagged = Len(report.suspicious_accounts)
    /\ Len(report.graph.edges) = Len(txns)
    /\ EdgesInReport(report) = {EdgeOfTransaction(txns[i]) : i \in 1..Len(txns)}
    /\ \A i, j \in 1..Len(report.graph.edges) :
            report.graph.edges[i].id = report.graph.edges[j].id => i = j

\* C23: in every report analyze returns, total_accounts_analyzed is the node
\* count of the graph and the number of entries of graph.nodes,
\* fraud_rings_detected is the length of fraud_rings,
\* suspicious_accounts_flagged is the length of suspicious_accounts, and
\* graph.edges has exactly one entry per accepted transaction, with its id,
\* its sender as source and its receiver as target
C23_SummaryCountsAndEdges ==
    \A i \in 1..Len(reports) :
        SummaryAgrees(reports[i].report, csv_content, an_graph)

\* a report with rings, suspicious accounts, accounts that are not suspicious
\* and a sender of several transactions
C23_Witness ==
    /\ Len(reports) = 1
    /\ LastReport.fraud_rings # <<>>
    /\ Len(LastReport.suspicious_accounts) < Len(LastReport.graph.nodes)
    /\ \E i, j \in 1..Len(LastReport.graph.edges) :
            /\ i # j
            /\ LastReport.graph.edges[i].source = LastReport.graph.edges[j].source


\* ---------------------------------------------------------------------------
\* The order of suspicious_accounts (SpecAnalyze)

\* the place of an account in the order in which the aggregation step first
\* recorded the accounts
FirstRecorded(order, a) == CHOOSE k \in 1..Len(order) : order[k] = a

RankedByScore(report, order) ==
    \A i, j \in 1..Len(report.suspicious_accounts) :
        i < j =>
            LET x == report.suspicious_accounts[i]
                y == report.suspicious_accounts[j]
            IN  \/ x.suspicion_score > y.suspicion_score
                \/ /\ x.suspicion_score = y.suspicion_score
                   /\ FirstRecorded(order, x.account_id)
                        < FirstRecorded(order, y.account_id)

\* C24: suspicious_accounts is ordered by suspicion_score from highest to
\* lowest, and accounts of equal score stand in the order in which the
\* aggregation step first recorded them
C24_RankedByScoreStable ==
    \A i \in 1..Len(reports) :
        ~reports[i].timed_out
            => RankedByScore(reports[i].report, Aggregate(detected).account_order)

\* a report where an account recorded later outranks an account recorded
\* earlier, next to accounts of equal score
C24_Witness ==
    /\ Len(reports) = 1
    /\ ~reports[1].timed_out
    /\ LET sa == LastReport.suspicious_accounts
           order == Aggregate(detected).account_order
       IN  /\ \E i, j \in 1..Len(sa) :
                /\ i < j
                /\ sa[i].suspicion_score > sa[j].suspicion_score
                /\ FirstRecorded(order, sa[i].account_id)
                        > FirstRecorded(order, sa[j].account_id)
           /\ \E i, j \in 1..Len(sa) :
                /\ i < j
                /\ sa[i].suspicion_score = sa[j].suspicion_score


\* ---------------------------------------------------------------------------
\* Suspicious accounts and ring members (SpecAnalyze)

SuspiciousIds(report) ==
    {report.suspicious_accounts[i].account_id :
        i \in 1..Len(report.suspicious_accounts)}

RingMembers(report) ==
    UNION {Range(report.fraud_rings[i].member_accounts) :
            i \in 1..Len(report.fraud_rings)}

SuspiciousAreTheMembers(report) ==
    /\ SuspiciousIds(report) = RingMembers(report)
    /\ \A i, j \in 1..Len(report.suspicious_accounts) :
            report.suspicious_accounts[i].account_id
                    = report.suspicious_accounts[j].account_id => i = j
    /\ \A i \in 1..Len(report.graph.nodes) :
            report.graph.nodes[i].suspicious
                <=> report.graph.nodes[i].id \in SuspiciousIds(report)
    /\ \A i \in 1..Len(report.suspicious_accounts) :
            LET account == report.suspicious_accounts[i]
            IN  /\ account.ring_id # "UNKNOWN"
                /\ \E k \in 1..Len(report.fraud_rings) :
                        /\ report.fraud_rings[k].ring_id = account.ring_id
                        /\ account.account_id
                                \in Range(report.fraud_rings[k].member_accounts)

\* C30: in every report the account ids of suspicious_accounts are exactly
\* the members of the fraud rings, each listed once; a node of the snapshot
\* is marked suspicious exactly when it is listed in suspicious_accounts; and
\* the ring_id of a suspicious account is never "UNKNOWN" but the ID of a
\* ring of fraud_rings that contains the account
C30_SuspiciousAreTheMembers ==
    \A i \in 1..Len(reports) : SuspiciousAreTheMembers(reports[i].report)

\* a report with an account in several rings, and with nodes that are in no
\* ring
C30_Witness ==
    /\ Len(reports) = 1
    /\ \E i, j \in 1..Len(LastReport.fraud_rings) :
            /\ i # j
            /\ Range(LastReport.fraud_rings[i].member_accounts)
                    \cap Range(LastReport.fraud_rings[j].member_accounts) # {}
    /\ \E i \in 1..Len(LastReport.graph.nodes) :
            ~LastReport.graph.nodes[i].suspicious


\* ---------------------------------------------------------------------------
\* The paths detect_shell_networks must report (SpecShells)

InputAccounts ==
    {added[i].sender_id : i \in 1..Len(added)}
        \cup {added[i].receiver_id : i \in 1..Len(added)}

Receivers(account) ==
    {added[i].receiver_id : i \in {j \in 1..Len(added) : added[j].sender_id = account}}

\* the directed simple paths of h hops in the input
RECURSIVE PathsOfHops(_)
PathsOfHops(h) ==
    IF h = 0 THEN {<<a>> : a \in InputAccounts}
    ELSE UNION {{Append(path, v) : v \in Receivers(path[Len(path)]) \ Range(path)} :
                    path \in PathsOfHops(h - 1)}

\* from an account outside the shell band, through shells, to an account
\* outside the shell band
ShellPath(path) ==
    /\ ~ShellDegree(path[1])
    /\ \A j \in 2..(Len(path) - 1) : ShellDegree(path[j])
    /\ ~ShellDegree(path[Len(path)])

ShellPaths ==
    {path \in UNION {PathsOfHops(h) : h \in MIN_CHAIN_HOPS..MAX_CHAIN_HOPS} :
        ShellPath(path)}

ChainsOf(path) == {i \in 1..Len(shell_chains) : shell_chains[i].members = path}

\* C25: for every directed simple path of 3 to 8 hops from an account of
\* total degree outside [2, 3], through accounts of total degree 2 or 3, to
\* an account of total degree outside [2, 3], detect_shell_networks returns
\* exactly one ShellChain with that path as members, parallel edges or not;
\* and no chain returned goes on beyond an account outside the shell band:
\* such an account is the first or the last member only
C25_EveryShellPathOnce ==
    dpc = "returned" =>
        /\ \A path \in ShellPaths : Cardinality(ChainsOf(path)) = 1
        /\ \A i \in 1..Len(shell_chains) :
                \A j \in 2..(Len(shell_chains[i].members) - 1) :
                    ShellDegree(shell_chains[i].members[j])

\* A -> B -> C -> D with B, C of degree 2 and A, D of degree 4 is reported
C25_Witness ==
    /\ dpc = "returned"
    /\ <<"A", "B", "C", "D">> \in ShellPaths
    /\ DegreeInInput("A") = 4
    /\ DegreeInInput("D") = 4
    /\ DegreeInInput("B") = 2
    /\ DegreeInInput("C") = 2
    /\ ChainsOf(<<"A", "B", "C", "D">>) # {}

\* a path of 8 hops is reported
C25_WitnessEightHops ==
    /\ dpc = "returned"
    /\ \E path \in ShellPaths : Len(path) = MAX_CHAIN_HOPS + 1 /\ ChainsOf(path) # {}

\* a path with a parallel edge on it is reported
C25_WitnessParallel ==
    /\ dpc = "returned"
    /\ \E path \in ShellPaths :
        /\ ChainsOf(path) # {}
        /\ \E s, t \in 1..Len(added) :
            /\ s # t
            /\ added[s].sender_id = path[1] /\ added[s].receiver_id = path[2]
            /\ added[t].sender_id = path[1] /\ added[t].receiver_id = path[2]

\* a path of 9 hops between accounts outside the shell band, which is beyond
\* the search
C25_WitnessNineHops ==
    /\ dpc = "returned"
    /\ \E path \in PathsOfHops(MAX_CHAIN_HOPS + 1) : ShellPath(path)


\* ---------------------------------------------------------------------------
\* Origins, lengths and termination of the shell search

\* what a step of DetectShells does to the position of the caller, whatever
\* the chains found: DetectShells is enabled exactly when this is, and the
\* steps of ShellsNext that satisfy it are those of DetectShells
ShellsReturn ==
    /\ dpc = "shells"
    /\ dpc' = "returned"

\* the call of detect_shell_networks is carried out
SpecShellsFair == SpecShells /\ WF_dpc(ShellsReturn)

ShellChainsBounded ==
    dpc = "returned" =>
        \A i \in 1..Len(shell_chains) :
            /\ ~ShellDegree(shell_chains[i].members[1])
            /\ shell_chains[i].chain_length >= MIN_CHAIN_HOPS
            /\ shell_chains[i].chain_length <= MAX_CHAIN_HOPS
            /\ Len(shell_chains[i].members) <= MAX_CHAIN_HOPS + 1

\* C26: every ShellChain returned starts at an account of total degree
\* outside [2, 3] and has a chain_length from 3 to 8; no path of more than 8
\* hops is built, and the call of detect_shell_networks returns
C26_ShellSearchBounded == []ShellChainsBounded /\ <>(dpc = "returned")

\* the search has returned on a path longer than 8 hops, with a chain of 8
\* hops and a chain of 3
C26_Witness ==
    /\ dpc = "returned"
    /\ Len(added) > MAX_CHAIN_HOPS
    /\ \E i \in 1..Len(shell_chains) : shell_chains[i].chain_length = MAX_CHAIN_HOPS
    /\ \E i \in 1..Len(shell_chains) : shell_chains[i].chain_length = MIN_CHAIN_HOPS


\* ---------------------------------------------------------------------------
\* The window a SmurfingRing reports (SpecSmurfing)

\* the timestamps of the node's edges in the direction of pattern
EdgeTimestamps(node, pattern) ==
    {added[j].timestamp : j \in EdgesOf(node, pattern)}

\* the largest number of distinct counterparties of the node within 72 hours
MostWithinSpan(node, pattern) ==
    LET counts == {Cardinality(WithinSpan(node, pattern, t)) :
                        t \in EdgeTimestamps(node, pattern)}
    IN  CHOOSE n \in counts : \A k \in counts : k <= n

\* the 72-hour windows, by their start, that hold that number
FullestSpans(node, pattern) ==
    {t \in EdgeTimestamps(node, pattern) :
        Cardinality(WithinSpan(node, pattern, t)) = MostWithinSpan(node, pattern)}

EarliestFullestSpan(node, pattern) ==
    CHOOSE t \in FullestSpans(node, pattern) :
        \A u \in FullestSpans(node, pattern) : t <= u

\* C27: the counterparties of every SmurfingRing returned are the distinct
\* counterparties of a 72-hour window over the hub's edges in the ring's
\* direction that holds the largest number of distinct counterparties of
\* all such windows, and of the windows that hold that number, the earliest
\* in timestamp order
C27_EarliestFullestWindow ==
    dpc = "returned" =>
        \A i \in 1..Len(smurfing_rings) :
            LET ring == smurfing_rings[i]
            IN  /\ Cardinality(Range(ring.counterparties))
                      = MostWithinSpan(ring.hub_account, ring.pattern)
                /\ Range(ring.counterparties)
                      = WithinSpan(ring.hub_account, ring.pattern,
                            EarliestFullestSpan(ring.hub_account, ring.pattern))

\* a ring of a hub with two windows of ten counterparties that differ
C27_Witness ==
    /\ dpc = "returned"
    /\ Len(smurfing_rings) = 1
    /\ LET ring == smurfing_rings[1]
       IN  \E t, u \in FullestSpans(ring.hub_account, ring.pattern) :
                WithinSpan(ring.hub_account, ring.pattern, t)
                    # WithinSpan(ring.hub_account, ring.pattern, u)

\* a ring of a hub with a fullest window of eleven and lesser windows of ten
C27_WitnessLesser ==
    /\ dpc = "returned"
    /\ Len(smurfing_rings) = 1
    /\ LET ring == smurfing_rings[1]
       IN  /\ Len(ring.counterparties) = 11
           /\ \E t \in EdgeTimestamps(ring.hub_account, ring.pattern) :
                Cardinality(WithinSpan(ring.hub_account, ring.pattern, t)) = 10


(***************************************************************************)
(* _normalize_cycle on paths; the CycleRing objects built from its results *)
(***************************************************************************)

MaxPathLen == 4

\* ids whose order as str is not the order of their lengths or digits
NormIds == {"B", "H", "L1", "L2"}

\* the lists of at most n ids, with or without repetitions
RECURSIVE PathsUpTo(_)
PathsUpTo(n) ==
    IF n = 0 THEN {<<>>}
    ELSE PathsUpTo(n - 1)
            \cup {Append(path, a) : path \in {x \in PathsUpTo(n - 1) : Len(x) = n - 1},
                                     a \in NormIds}

MaxNormCalls == 2

NormInit ==
    /\ norm_path \in PathsUpTo(MaxPathLen)
    /\ norm_calls = <<>>
    /\ norm_rings = <<>>
    /\ GraphIdle
    /\ ParseIdle
    /\ CycleIdle
    /\ AnalyzeIdle
    /\ TimeoutIdle
    /\ DetectorIdle
    /\ PairIdle
    /\ RunIdle

\* "normalized = _normalize_cycle(path)"
NormalizePath ==
    /\ Len(norm_calls) < MaxNormCalls
    /\ norm_calls' = Append(norm_calls,
            [arg |-> norm_path, result |-> _normalize_cycle(norm_path)])
    /\ UNCHANGED <<norm_path, norm_rings>>
    /\ UNCHANGED otherThanNorm

\* _normalize_cycle applied to a tuple it returned
NormalizeResult ==
    /\ Len(norm_calls) < MaxNormCalls
    /\ \E i \in 1..Len(norm_calls) :
        norm_calls' = Append(norm_calls,
            [arg |-> norm_calls[i].result,
             result |-> _normalize_cycle(norm_calls[i].result)])
    /\ UNCHANGED <<norm_path, norm_rings>>
    /\ UNCHANGED otherThanNorm

\* the search meets the same cycle from its next start node: the path is the
\* same cycle one account further on
NextRotation ==
    /\ norm_path # <<>>
    /\ norm_rings = <<>>
    /\ norm_path' = Tail(norm_path) \o <<Head(norm_path)>>
    /\ UNCHANGED <<norm_calls, norm_rings>>
    /\ UNCHANGED otherThanNorm

\* "results = [CycleRing(members=list(cycle_key), length=len(cycle_key)) ...]"
\* for the tuples returned so far
ConvertToRings ==
    /\ norm_calls # <<>>
    /\ norm_rings = <<>>
    /\ norm_rings' = [i \in 1..Len(norm_calls) |-> CycleRing(norm_calls[i].result)]
    /\ UNCHANGED <<norm_path, norm_calls>>
    /\ UNCHANGED otherThanNorm

NormNext ==
    \/ NormalizePath
    \/ NormalizeResult
    \/ NextRotation
    \/ ConvertToRings

SpecNormalize == NormInit /\ [][NormNext]_vars

Distinct(path) == Cardinality(Range(path)) = Len(path)

\* the rotations of a path
Rotations(path) ==
    {SubSeq(path, k, Len(path)) \o SubSeq(path, 1, k - 1) : k \in 1..Len(path)}

\* a is the smallest of the ids of S, as str
Smallest(a, S) == a \in S /\ \A b \in S : a = b \/ StrLess(a, b)

\* C28: _normalize_cycle returns a rotation of its argument that starts with
\* the lexicographically smallest id; two rotations of a list of pairwise
\* distinct ids are given the same tuple; a tuple it returned is returned
\* as it is; and the first member of every CycleRing built from its results
\* is the smallest of the members
C28_NormalizedRotation ==
    /\ \A i \in 1..Len(norm_calls) :
            LET call == norm_calls[i]
            IN  /\ call.arg = <<>> => call.result = <<>>
                /\ call.arg # <<>> =>
                    /\ call.result \in Rotations(call.arg)
                    /\ Smallest(call.result[1], Range(call.arg))
                /\ (\E j \in 1..Len(norm_calls) : call.arg = norm_calls[j].result)
                        => call.result = call.arg
    /\ \A i, j \in 1..Len(norm_calls) :
            (/\ Distinct(norm_calls[i].arg)
             /\ norm_calls[j].arg \in Rotations(norm_calls[i].arg))
                => norm_calls[i].result = norm_calls[j].result
    /\ \A i \in 1..Len(norm_rings) :
            norm_rings[i].members # <<>>
                => Smallest(norm_rings[i].members[1], Range(norm_rings[i].members))

\* two different rotations of a list of distinct ids, neither starting with
\* the smallest, normalized to one tuple, and the rings built from it
C28_Witness ==
    /\ Len(norm_calls) = 2
    /\ Len(norm_calls[1].arg) >= 3
    /\ Distinct(norm_calls[1].arg)
    /\ norm_calls[1].arg # norm_calls[2].arg
    /\ norm_calls[2].arg \in Rotations(norm_calls[1].arg)
    /\ norm_calls[1].result # norm_calls[1].arg
    /\ norm_calls[2].result # norm_calls[2].arg
    /\ Len(norm_rings) = 2

\* a returned tuple normalized again
C28_WitnessTwice ==
    /\ Len(norm_calls) = 2
    /\ norm_calls[1].result # norm_calls[1].arg
    /\ norm_calls[2].arg = norm_calls[1].result


(***************************************************************************)
(* The three detectors called on one graph, in any order                   *)
(***************************************************************************)

\* hub H with ten or eleven counterparties, its edges added latest first
LatestFirstInputs ==
    {TxnsOfEdges(Reverse(FanEdges(EvenTimes(n, step), pattern))) :
        n \in {THRESHOLD, THRESHOLD + 1},
        step \in {1, Gap},
        pattern \in {"fan_in", "fan_out"}}

DetectorInputs == RingScenarios \cup OverlapScenarios \cup LatestFirstInputs

\* "sorted_edges = sorted(edges, key=lambda e: e.timestamp)" with edges.sort
\* in its place: the list handed in is left sorted
ListAfterSortInPlace(edges) == SortByTimestamp(edges)

\* the list handed to _check_temporal_window, which is the graph's own list
\* (get_incoming_edges and get_outgoing_edges return it, not a copy), after
\* "sorted_edges = sorted(edges, key=lambda e: e.timestamp)": sorted builds
\* a new list
ListAfterSorted(edges) == edges

\* an adjacency dict after detect_smurfing: the lists of at least THRESHOLD
\* edges have been handed to _check_temporal_window
AdjacencyAfterSmurfing(d) ==
    [node \in DOMAIN d |->
        IF Len(d[node]) >= THRESHOLD THEN ListAfterSorted(d[node]) ELSE d[node]]

\* the graph after detect_smurfing, which reads graph.nodes and the lists
\* of get_incoming_edges and get_outgoing_edges
GraphAfterSmurfing(g) ==
    [g EXCEPT !.reverse_adj = AdjacencyAfterSmurfing(@),
              !.adj = AdjacencyAfterSmurfing(@)]

\* the graph after detect_cycles and after detect_shell_networks, which read
\* graph.nodes and graph.stats and take from get_neighbors a list built anew
\* on each call; path, visited and the stack are lists and sets of their own
GraphAfterCycles(g) == g

GraphAfterShells(g) == g

Detectors == {"detect_cycles", "detect_smurfing", "detect_shell_networks"}

DetectorsInit ==
    /\ \E txns \in DetectorInputs : run_graph = build_graph(txns)
    /\ run_seed \in HashSeeds
    /\ ran = <<>>
    /\ run_outputs = EmptyDetectorOutputs
    /\ GraphIdle
    /\ ParseIdle
    /\ CycleIdle
    /\ AnalyzeIdle
    /\ TimeoutIdle
    /\ DetectorIdle
    /\ PairIdle
    /\ NormIdle

CallDetectCycles ==
    /\ "detect_cycles" \notin Range(ran)
    /\ run_outputs' = [run_outputs EXCEPT
                          !.cycle_rings = detect_cycles(run_graph, run_seed)]
    /\ run_graph' = GraphAfterCycles(run_graph)
    /\ ran' = Append(ran, "detect_cycles")
    /\ UNCHANGED run_seed
    /\ UNCHANGED otherThanRun

CallDetectSmurfing ==
    /\ "detect_smurfing" \notin Range(ran)
    /\ run_outputs' = [run_outputs EXCEPT
                          !.smurfing_rings = detect_smurfing(run_graph, run_seed)]
    /\ run_graph' = GraphAfterSmurfing(run_graph)
    /\ ran' = Append(ran, "detect_smurfing")
    /\ UNCHANGED run_seed
    /\ UNCHANGED otherThanRun

CallDetectShells ==
    /\ "detect_shell_networks" \notin Range(ran)
    /\ run_outputs' = [run_outputs EXCEPT
                          !.shell_chains = detect_shell_networks(run_graph, run_seed)]
    /\ run_graph' = GraphAfterShells(run_graph)
    /\ ran' = Append(ran, "detect_shell_networks")
    /\ UNCHANGED run_seed
    /\ UNCHANGED otherThanRun

DetectorsNext ==
    \/ CallDetectCycles
    \/ CallDetectSmurfing
    \/ CallDetectShells

SpecDetectors == DetectorsInit /\ [][DetectorsNext]_vars

C29_WitnessAllFound ==
    /\ Len(ran) = 3
    /\ run_outputs.cycle_rings # <<>>
    /\ run_outputs.smurfing_rings # <<>>
    /\ run_outputs.shell_chains # <<>>

=============================================================================
